---- MODULE Spec2Model ----
(***************************************************************************)
(* A model of sonicast's MPD client (src/src/mpd): the connection          *)
(* multiplexer of mod.rs (try_command, conn_reader, conn_keepalive, Drop)  *)
(* and the frame reader / writer of protocol.rs.                           *)
(*                                                                         *)
(* Strings are sequences of one-character strings, so that quoting,        *)
(* prefix tests and trimming are computed and not assumed.                 *)
(***************************************************************************)
EXTENDS Integers, Sequences, FiniteSets, TLC

VARIABLES
    \* ---- connection multiplexer (mod.rs) ----
    pc,         \* position of every task that runs try_command
    cmd,        \* the command a task is submitting: [name, args]
    inv,        \* the waiter of a task's current try_command: k for the k-th pushed
    npush,      \* number of waiters pushed so far
    writer,     \* holder of ConnShared.writer (the async mutex), or Free
    qlock,      \* holder of the queue mutex, or Free
    queue,      \* ConnShared.queue: VecDeque<ResponseWait>, by invocation number
    slot,       \* the oneshot channel of each task's current invocation
    wire,       \* the command lines written to the socket, in order
    peer,       \* the daemon: lines answered so far and its state
    stream,     \* what the daemon has sent and the reader has not read yet
    rd,         \* conn_reader: its position and the response it holds
    nread,      \* number of frames conn_reader has read
    delivered,  \* history: which frame went to which waiter, in order
    returned,   \* history: what command() returned, by waiter
    kalog,      \* number of warnings conn_keepalive has logged
    torn,       \* the Conn has been dropped
    \* ---- frame reader (protocol.rs) ----
    input,      \* bytes of the socket not yet consumed by MpdReader
    orig,       \* the bytes the socket held at the start
    rpc,        \* position of the frame reader
    attributes, \* read_response's local `attributes`
    binary,     \* read_response's local `binary`
    frames,     \* the responses read_response has returned, in order
    rerr,       \* the error read_response returned, if any
    lastline,   \* the line handled by the last step of read_response
    \* ---- connection set-up (Conn::connect, Mpd::connect) ----
    conn,       \* how far Mpd::connect has come
    proto,      \* the Protocol that MpdReader::open returned, while it is alive
    \* ---- frame writer (MpdWriter::send_command) ----
    call,       \* the arguments of a send_command call: [cmd, args]
    sock,       \* the bytes written to the socket so far
    sent,       \* what send_command returned
    \* ---- attribute store (Attributes) ----
    store,      \* Attributes.attrs: the ordered (key, value) pairs
    asked,      \* the method called on the store and its key
    answer,     \* what that method returned
    \* ---- application tasks (player.rs, player/commands.rs, app/events.rs) ----
    guard,      \* holder of the write guard of Ctx.mpd (RwLock<Mpd>), or Free
    ws,         \* each WebSocket session: its receive task and what it has sent
    evloop      \* events::mpd_loop on the event connection

muxvars == <<pc, cmd, inv, npush, writer, qlock, queue, slot, wire, peer,
             stream, rd, nread, delivered, returned, kalog, torn>>
rdvars == <<input, orig, rpc, attributes, binary, frames, rerr, lastline>>
connvars == <<conn, proto>>
wrvars == <<call, sock, sent>>
atvars == <<store, asked, answer>>
appvars == <<guard, ws, evloop>>
vars == <<muxvars, rdvars, connvars, wrvars, atvars, appvars>>

----------------------------------------------------------------------------
(* Bounds *)

\* try_command invocations explored in one behaviour (callers and keepalive)
MaxInv == 3

----------------------------------------------------------------------------
(* Strings *)

NL == "\n"
SP == " "
QUOTE == "\""
BACKSLASH == "\\"

\* char::is_ascii_whitespace / char::is_whitespace over the model's alphabet
IsWhitespace(c) == c \in {SP, NL, "\t", "\r"}

RECURSIVE trim_end(_)
trim_end(s) ==
    IF s = <<>> THEN s
    ELSE IF IsWhitespace(s[Len(s)]) THEN trim_end(SubSeq(s, 1, Len(s) - 1))
    ELSE s

RECURSIVE trim_start(_)
trim_start(s) ==
    IF s = <<>> THEN s
    ELSE IF IsWhitespace(Head(s)) THEN trim_start(Tail(s))
    ELSE s

trim_ascii(s) == trim_start(trim_end(s))

starts_with(s, prefix) ==
    /\ Len(s) >= Len(prefix)
    /\ SubSeq(s, 1, Len(prefix)) = prefix

AsciiLower(c) ==
    CASE c = "I" -> "i"
      [] c = "D" -> "d"
      [] c = "L" -> "l"
      [] c = "E" -> "e"
      [] OTHER -> c

eq_ignore_ascii_case(a, b) ==
    /\ Len(a) = Len(b)
    /\ \A i \in 1..Len(a) : AsciiLower(a[i]) = AsciiLower(b[i])

----------------------------------------------------------------------------
(* Frame writer: MpdWriter::send_command *)

\* an argument loop that escapes the quote only
RECURSIVE push_arg_chars_QuoteOnly(_, _)
push_arg_chars_QuoteOnly(line, chars) ==
    IF chars = <<>> THEN [ok |-> TRUE, line |-> line]
    ELSE LET c == Head(chars) IN
         IF c = QUOTE
         THEN push_arg_chars_QuoteOnly(line \o <<BACKSLASH, c>>, Tail(chars))
         ELSE IF c = NL THEN [ok |-> FALSE, line |-> line]
         ELSE push_arg_chars_QuoteOnly(Append(line, c), Tail(chars))

\* an argument loop that escapes the backslash only
RECURSIVE push_arg_chars_BackslashOnly(_, _)
push_arg_chars_BackslashOnly(line, chars) ==
    IF chars = <<>> THEN [ok |-> TRUE, line |-> line]
    ELSE LET c == Head(chars) IN
         IF c = BACKSLASH
         THEN push_arg_chars_BackslashOnly(line \o <<BACKSLASH, c>>, Tail(chars))
         ELSE IF c = NL THEN [ok |-> FALSE, line |-> line]
         ELSE push_arg_chars_BackslashOnly(Append(line, c), Tail(chars))

\* an argument loop that drops a newline instead of failing
RECURSIVE push_arg_chars_StripNewline(_, _)
push_arg_chars_StripNewline(line, chars) ==
    IF chars = <<>> THEN [ok |-> TRUE, line |-> line]
    ELSE LET c == Head(chars) IN
         IF c = QUOTE \/ c = BACKSLASH
         THEN push_arg_chars_StripNewline(line \o <<BACKSLASH, c>>, Tail(chars))
         ELSE IF c = NL THEN push_arg_chars_StripNewline(line, Tail(chars))
         ELSE push_arg_chars_StripNewline(Append(line, c), Tail(chars))

\* the loop over arg.chars(): the line so far, extended by the escaped
\* characters; ok is FALSE where the code bails on a newline
RECURSIVE push_arg_chars(_, _)
push_arg_chars(line, chars) ==
    IF chars = <<>> THEN [ok |-> TRUE, line |-> line]
    ELSE LET c == Head(chars) IN
         IF c = QUOTE \/ c = BACKSLASH
         THEN push_arg_chars(line \o <<BACKSLASH, c>>, Tail(chars))
         ELSE IF c = NL THEN [ok |-> FALSE, line |-> line]
         ELSE push_arg_chars(Append(line, c), Tail(chars))

\* the loop over args
RECURSIVE push_args(_, _)
push_args(line, args) ==
    IF args = <<>> THEN [ok |-> TRUE, line |-> line]
    ELSE LET r == push_arg_chars(line \o <<SP, QUOTE>>, Head(args)) IN
         IF ~r.ok THEN r
         ELSE push_args(Append(r.line, QUOTE), Tail(args))

\* send_command: the bytes written to the socket and the result.  sock_ok is
\* whether write_all succeeds.
send_command(name, args, sock_ok) ==
    LET r == push_args(name, args) IN
    IF ~r.ok THEN [tag |-> "EncodingError", written |-> <<>>]
    ELSE IF ~sock_ok THEN [tag |-> "IoError", written |-> <<>>]
    ELSE [tag |-> "Ok", written |-> Append(r.line, NL)]

----------------------------------------------------------------------------
(* Connection multiplexer: state *)

Callers == {"c1", "c2"}
KA == "keepalive"
Tasks == Callers \cup {KA}
Free == "free"

\* a frame as conn_reader sees it: Ok(OkResponse) or Err(ErrorResponse), and
\* the command line (its index on the wire) the daemon produced it for
Frame(kind, k) == [kind |-> kind, for |-> k]
Empty == Frame("Empty", 0)
IsFrame(f) == f.kind \in {"Ok", "Err"}

\* command names and arguments the domain client uses on this connection
ch_idle == <<"i", "d", "l", "e">>
ch_ping == <<"p", "i", "n", "g">>
ch_addid == <<"a", "d", "d", "i", "d">>
SUBSYSTEMS == << <<"p", "l", "a", "y", "e", "r">>,
                 <<"p", "l", "a", "y", "l", "i", "s", "t">>,
                 <<"o", "p", "t", "i", "o", "n", "s">>,
                 <<"m", "i", "x", "e", "r">> >>
\* locations a client may ask to add; the second holds a newline
Locations == { <<"a">>, <<"a", NL, "b">> }

Command(name, args) == [name |-> name, args |-> args]
NoCmd == Command(<<>>, <<>>)
\* Mpd::idle, Mpd::addid
CallerCommands ==
    {Command(ch_idle, SUBSYSTEMS)} \cup {Command(ch_addid, <<l>>) : l \in Locations}
Ping == Command(ch_ping, <<>>)

is_idle(name) == eq_ignore_ascii_case(trim_ascii(name), ch_idle)

\* the guard dropped for every command, idle included
HoldsWriter_Never(name) == FALSE

\* the guard kept across rx.await for every command
HoldsWriter_Always(name) == TRUE

\* try_command keeps the writer guard across rx.await for idle only
HoldsWriterWhileWaiting(name) == is_idle(name)

\* a Drop that forgets keepalive.abort()
DropAborts_ReaderOnly == {"reader"}

\* the tasks Drop for Conn aborts
DropAborts == {"reader", KA}

MuxInit ==
    /\ pc = [t \in Tasks |-> IF t = KA THEN "sleep" ELSE "ready"]
    /\ cmd = [t \in Tasks |-> NoCmd]
    /\ inv = [t \in Tasks |-> 0]
    /\ npush = 0
    /\ writer = Free
    /\ qlock = Free
    /\ queue = <<>>
    /\ slot = [t \in Tasks |-> Empty]
    /\ wire = <<>>
    /\ peer = [answered |-> 0, state |-> "up"]
    /\ stream = <<>>
    /\ rd = [pc |-> "read", response |-> Empty]
    /\ nread = 0
    /\ delivered = <<>>
    /\ returned = {}
    /\ kalog = 0
    /\ torn = FALSE

----------------------------------------------------------------------------
(* Connection multiplexer: try_command, command, conn_keepalive *)

\* Result<Response>: what try_command returns
TryOk(f) == [tag |-> "Ok", why |-> "", frame |-> f]
TryErr(why) == [tag |-> "Err", why |-> why, frame |-> Empty]

\* ok_response: Ok(result??).  A transport error stays an error, an
\* ErrorResponse frame becomes an error carrying that frame's line.
ok_response(result) ==
    IF result.tag = "Err" THEN result
    ELSE IF result.frame.kind = "Err"
         THEN [tag |-> "Err", why |-> "ErrorResponse", frame |-> result.frame]
         ELSE result

\* a loop that also breaks on an error response
keepalive_match_BreakOnAck(result) ==
    IF result.tag = "Err" \/ result.frame.kind = "Err"
    THEN [pc |-> "stopped", warn |-> 0]
    ELSE [pc |-> "sleep", warn |-> 0]

\* the match in conn_keepalive's loop: where the task goes next and whether
\* it logs a warning
keepalive_match(result) ==
    IF result.tag = "Err" THEN [pc |-> "stopped", warn |-> 0]
    ELSE IF result.frame.kind = "Err" THEN [pc |-> "sleep", warn |-> 1]
    ELSE [pc |-> "sleep", warn |-> 0]

\* try_command returns `result` to its caller: command() for a domain
\* caller, the loop of conn_keepalive for the keepalive task
Finish(t, result) ==
    /\ returned' = IF t = KA THEN returned
                   ELSE returned \cup {[inv |-> inv[t], res |-> ok_response(result)]}
    /\ pc' = [pc EXCEPT ![t] = IF t = KA THEN keepalive_match(result).pc
                                ELSE "ready"]
    /\ cmd' = [cmd EXCEPT ![t] = NoCmd]
    /\ inv' = [inv EXCEPT ![t] = 0]
    /\ kalog' = IF t = KA THEN kalog + keepalive_match(result).warn ELSE kalog

\* try_command invocations so far: the waiters pushed and the tasks that
\* still wait for the writer lock
Started == npush + Cardinality({t \in Tasks : pc[t] = "lock"})

\* a domain caller calls Conn::command; try_command creates the oneshot
\* channel and starts waiting for the writer lock
InvokeCommand(c, command) ==
    /\ c \in Callers
    /\ ~torn
    /\ pc[c] = "ready"
    /\ cmd' = [cmd EXCEPT ![c] = command]
    /\ slot' = [slot EXCEPT ![c] = Empty]
    /\ pc' = [pc EXCEPT ![c] = "lock"]
    /\ UNCHANGED <<inv, npush, writer, qlock, queue, wire, peer, stream, rd, nread,
                   delivered, returned, kalog, torn>>
    /\ UNCHANGED <<rdvars, connvars, wrvars, atvars, appvars>>

\* the callers' invocations, as many as the bound allows
Invoke(c, command) ==
    /\ Started < MaxInv
    /\ InvokeCommand(c, command)

\* conn_keepalive: the sleep ends and the task calls try_command("ping")
KeepaliveWake ==
    /\ pc[KA] = "sleep"
    /\ Started < MaxInv
    /\ cmd' = [cmd EXCEPT ![KA] = Ping]
    /\ slot' = [slot EXCEPT ![KA] = Empty]
    /\ pc' = [pc EXCEPT ![KA] = "lock"]
    /\ UNCHANGED <<inv, npush, writer, qlock, queue, wire, peer, stream, rd, nread,
                   delivered, returned, kalog, torn>>
    /\ UNCHANGED <<rdvars, connvars, wrvars, atvars, appvars>>

\* a submission that does not register its waiter
push_back_Forgotten(q, w) == q

\* VecDeque::push_back
push_back(q, w) == Append(q, w)

\* shared.writer.lock().await; shared.queue.lock().await;
\* queue.push_back(ResponseWait { finish: tx }).  The queue lock is only ever
\* held by a task that holds the writer lock or, for the length of one poll,
\* by conn_reader, so the second lock is taken in the same step.
PushWaiter(t) ==
    /\ pc[t] = "lock"
    /\ writer = Free
    /\ qlock = Free
    /\ writer' = t
    /\ qlock' = t
    /\ npush' = npush + 1
    /\ inv' = [inv EXCEPT ![t] = npush + 1]
    /\ queue' = push_back(queue, npush + 1)
    /\ pc' = [pc EXCEPT ![t] = "pushed"]
    /\ UNCHANGED <<cmd, slot, wire, peer, stream, rd, nread,
                   delivered, returned, kalog, torn>>
    /\ UNCHANGED <<rdvars, connvars, wrvars, atvars, appvars>>

\* writer.send_command(cmd, args).await? and the end of the block that holds
\* the queue guard; on success the writer guard is dropped unless the command
\* is idle, on failure `?` returns and drops both guards and rx
SendCommand(t) ==
    /\ pc[t] = "pushed"
    /\ LET r == send_command(cmd[t].name, cmd[t].args, peer.state # "closed") IN
       IF r.tag = "Ok"
       THEN /\ wire' = Append(wire, [inv |-> inv[t], name |-> cmd[t].name,
                                     line |-> r.written])
            /\ qlock' = Free
            /\ writer' = IF HoldsWriterWhileWaiting(cmd[t].name) THEN t ELSE Free
            /\ pc' = [pc EXCEPT ![t] = "await"]
            /\ UNCHANGED <<cmd, inv, returned, kalog>>
       ELSE /\ qlock' = Free
            /\ writer' = Free
            /\ Finish(t, TryErr(r.tag))
            /\ UNCHANGED wire
    /\ UNCHANGED <<npush, queue, slot, peer, stream, rd, nread,
                   delivered, torn>>
    /\ UNCHANGED <<rdvars, connvars, wrvars, atvars, appvars>>

\* rx.await completes with the response the reader sent; the writer guard,
\* if still held, is dropped as try_command returns.  (rx.await fails only
\* once every sender is dropped, that is once the queue itself is dropped,
\* which needs the Conn and both tasks gone.)
Receive(t) ==
    /\ pc[t] = "await"
    /\ IsFrame(slot[t])
    /\ writer' = IF writer = t THEN Free ELSE writer
    /\ slot' = [slot EXCEPT ![t] = Empty]
    /\ Finish(t, TryOk(slot[t]))
    /\ UNCHANGED <<npush, qlock, queue, wire, peer, stream, rd, nread,
                   delivered, torn>>
    /\ UNCHANGED <<rdvars, connvars, wrvars, atvars, appvars>>

\* the future of a domain caller's command() is dropped while it waits for
\* its response (run_websocket's select drops the receive task).  Idle is only issued by events::mpd_loop, a detached task
\* that is never dropped while it runs.
Cancel(c) ==
    /\ c \in Callers
    /\ pc[c] = "await"
    /\ ~is_idle(cmd[c].name)
    /\ pc' = [pc EXCEPT ![c] = "ready"]
    /\ slot' = [slot EXCEPT ![c] = Empty]
    /\ cmd' = [cmd EXCEPT ![c] = NoCmd]
    /\ inv' = [inv EXCEPT ![c] = 0]
    /\ UNCHANGED <<npush, writer, qlock, queue, wire, peer, stream,
                   rd, nread, delivered, returned, kalog, torn>>
    /\ UNCHANGED <<rdvars, connvars, wrvars, atvars, appvars>>

----------------------------------------------------------------------------
(* Connection multiplexer: the daemon, conn_reader, Drop *)

ReaderGone == rd.pc \in {"panicked", "unreachable", "aborted"}
KeepaliveGone == pc[KA] \in {"stopped", "aborted"}

\* the socket lives as long as the Conn or one of its two tasks
SocketOpen == ~(torn /\ ReaderGone /\ KeepaliveGone)

\* the daemon answers the oldest unanswered command line with one frame (an
\* idle line when a subsystem changes, any other line at once)
PeerAnswer(kind) ==
    /\ SocketOpen
    /\ peer.state = "up"
    /\ peer.answered < Len(wire)
    /\ stream' = Append(stream, Frame(kind, peer.answered + 1))
    /\ peer' = [peer EXCEPT !.answered = @ + 1]
    /\ UNCHANGED <<pc, cmd, inv, npush, writer, qlock, queue, slot, wire, rd,
                   nread, delivered, returned, kalog, torn>>
    /\ UNCHANGED <<rdvars, connvars, wrvars, atvars, appvars>>

\* the stream breaks: the daemon closes the socket ("Eof": reads end, writes
\* fail) or sends a line read_response does not recognise ("Garbage")
PeerFail(how) ==
    /\ SocketOpen
    /\ peer.state = "up"
    /\ stream' = Append(stream, Frame(how, 0))
    /\ peer' = [peer EXCEPT !.state = IF how = "Eof" THEN "closed" ELSE "desync"]
    /\ UNCHANGED <<pc, cmd, inv, npush, writer, qlock, queue, slot, wire, rd,
                   nread, delivered, returned, kalog, torn>>
    /\ UNCHANGED <<rdvars, connvars, wrvars, atvars, appvars>>

\* conn_reader: pop_front and front.finish.send(response), on the queue as
\* it is.  The send reaches the receiver only if it has not been dropped; an
\* empty queue is the unreachable!() branch.
PopAndSend(response) ==
    IF queue = <<>>
    THEN /\ rd' = [pc |-> "unreachable", response |-> Empty]
         /\ UNCHANGED <<queue, slot, delivered>>
    ELSE /\ queue' = Tail(queue)
         /\ delivered' = Append(delivered,
                 [waiter |-> Head(queue), frame |-> response])
         /\ slot' = [t \in Tasks |->
                 IF inv[t] = Head(queue) /\ pc[t] = "await"
                 THEN response ELSE slot[t]]
         /\ rd' = [pc |-> "read", response |-> Empty]

\* conn_reader: reader.read_response().await.expect("lost mpd connection"),
\* then queue.lock().await, which completes in the same poll when the queue
\* lock is free
ReaderRead ==
    /\ rd.pc = "read"
    /\ stream # <<>>
    /\ stream' = Tail(stream)
    /\ IF ~IsFrame(Head(stream))
       THEN /\ rd' = [pc |-> "panicked", response |-> Empty]
            /\ UNCHANGED <<nread, queue, slot, delivered>>
       ELSE /\ nread' = nread + 1
            /\ IF qlock = Free
               THEN PopAndSend(Head(stream))
               ELSE /\ rd' = [pc |-> "gotframe", response |-> Head(stream)]
                    /\ UNCHANGED <<queue, slot, delivered>>
    /\ UNCHANGED <<pc, cmd, inv, npush, writer, qlock, wire, peer, returned,
                   kalog, torn>>
    /\ UNCHANGED <<rdvars, connvars, wrvars, atvars, appvars>>

\* conn_reader gets the queue lock it had to wait for
ReaderDeliver ==
    /\ rd.pc = "gotframe"
    /\ qlock = Free
    /\ PopAndSend(rd.response)
    /\ UNCHANGED <<pc, cmd, inv, npush, writer, qlock, wire, peer, stream,
                   nread, returned, kalog, torn>>
    /\ UNCHANGED <<rdvars, connvars, wrvars, atvars, appvars>>

\* Drop for Conn: reader.abort(); keepalive.abort().  command() borrows the
\* Conn, so no domain caller is inside command() when the Conn is dropped.
\* An aborted task drops what it holds; the last owner of ConnShared drops
\* the queue.
Teardown ==
    /\ ~torn
    /\ \A c \in Callers : pc[c] = "ready"
    /\ torn' = TRUE
    /\ rd' = IF "reader" \in DropAborts /\ ~ReaderGone
             THEN [pc |-> "aborted", response |-> Empty] ELSE rd
    /\ pc' = [pc EXCEPT ![KA] =
                 IF KA \in DropAborts /\ ~KeepaliveGone THEN "aborted" ELSE @]
    /\ writer' = IF writer = KA /\ KeepaliveGone' THEN Free ELSE writer
    /\ qlock' = IF qlock = KA /\ KeepaliveGone' THEN Free ELSE qlock
    /\ queue' = IF ReaderGone' /\ KeepaliveGone' THEN <<>> ELSE queue
    /\ cmd' = [cmd EXCEPT ![KA] = IF KeepaliveGone' THEN NoCmd ELSE @]
    /\ inv' = [inv EXCEPT ![KA] = IF KeepaliveGone' THEN 0 ELSE @]
    /\ slot' = [slot EXCEPT ![KA] = IF KeepaliveGone' THEN Empty ELSE @]
    /\ UNCHANGED <<npush, wire, peer, stream, nread, delivered, returned, kalog>>
    /\ UNCHANGED <<rdvars, connvars, wrvars, atvars, appvars>>

----------------------------------------------------------------------------
(* Frame reader: state *)

None == <<"None">>
Some(x) == <<"Some", x>>

\* the frame reader at rest, while the multiplexer is explored
ReaderOff ==
    /\ input = <<>>
    /\ orig = <<>>
    /\ rpc = "off"
    /\ attributes = <<>>
    /\ binary = None
    /\ frames = <<>>
    /\ rerr = [variant |-> "", msg |-> ""]
    /\ lastline = <<>>

\* the connection is set up: Mpd::connect has returned and dropped the Protocol
ConnUp ==
    /\ conn = "returned"
    /\ proto = None

\* no send_command call is being looked at on its own
WriterOff ==
    /\ call = [cmd |-> <<>>, args |-> <<>>]
    /\ sock = <<>>
    /\ sent = "off"

\* no attribute store is being looked at on its own
AttrsOff ==
    /\ store = <<>>
    /\ asked = [method |-> "off", key |-> <<>>]
    /\ answer = None

\* a session that is not looked at, and no mpd_loop
SessionOff == [pc |-> "off", rx |-> <<>>, got |-> <<>>, cur |-> <<>>, base |-> {}, tx |-> <<>>]
LoopOff == [at |-> "off", pending |-> <<>>, seen |-> <<>>, consumed |-> 0]

\* no application task is being looked at
AppOff ==
    /\ guard = Free
    /\ ws = [c \in Callers |-> SessionOff]
    /\ evloop = LoopOff

----------------------------------------------------------------------------
(* The multiplexer's specification *)

Init == MuxInit /\ ReaderOff /\ ConnUp /\ WriterOff /\ AttrsOff /\ AppOff

Next ==
    \/ \E c \in Callers, command \in CallerCommands : Invoke(c, command)
    \/ KeepaliveWake
    \/ \E t \in Tasks : PushWaiter(t)
    \/ \E t \in Tasks : SendCommand(t)
    \/ \E t \in Tasks : Receive(t)
    \/ \E c \in Callers : Cancel(c)
    \/ \E kind \in {"Ok", "Err"} : PeerAnswer(kind)
    \/ \E how \in {"Eof", "Garbage"} : PeerFail(how)
    \/ ReaderRead
    \/ ReaderDeliver
    \/ Teardown

Spec == Init /\ [][Next]_vars

\* the scheduling the runtime and the daemon guarantee: a task that can run
\* does run, and the daemon answers.  Callers invoking, futures being
\* dropped, the stream breaking and the Conn being dropped are not promised.
FairSpec ==
    /\ Spec
    /\ \A t \in Tasks : WF_vars(PushWaiter(t))
    /\ \A t \in Tasks : WF_vars(SendCommand(t))
    /\ \A t \in Tasks : WF_vars(Receive(t))
    /\ WF_vars(ReaderRead)
    /\ WF_vars(ReaderDeliver)
    /\ WF_vars(\E kind \in {"Ok", "Err"} : PeerAnswer(kind))

----------------------------------------------------------------------------
(* Properties of the multiplexer *)

\* the waiter whose command line is the k-th on the wire
WaiterOfLine(k) == wire[k].inv

\* a task is inside try_command
InFlight(t) == pc[t] \in {"lock", "pushed", "await"}

\* C1: every caller that receives a frame receives the frame the daemon
\* produced for its own command line.
C1_Fifo ==
    \A r \in returned :
        IsFrame(r.res.frame) => WaiterOfLine(r.res.frame.for) = r.inv

\* an idle line is on the wire and the frame answering it has not been
\* delivered
IdleOutstanding ==
    \E k \in 1..Len(wire) : is_idle(wire[k].name) /\ Len(delivered) < k

\* C2: while an idle line is on the wire and its response has not been
\* delivered, nothing is written to the wire.
C2_IdleExclusive == [][IdleOutstanding => wire' = wire]_vars

\* C2 witness: an idle is outstanding and another submission is suspended on
\* the writer lock.
C2_Witness ==
    /\ IdleOutstanding
    /\ \E t \in Tasks : pc[t] = "lock"

\* C3: every queued waiter belongs to a command whose line is on the wire
\* (or is being written by the task that holds the queue), and the k-th
\* waiter fulfilled gets the k-th frame, the response to the k-th line.
C3_WaiterPerLine ==
    /\ \A i \in 1..Len(queue) :
          \/ \E k \in 1..Len(wire) : WaiterOfLine(k) = queue[i]
          \/ \E t \in Tasks : pc[t] = "pushed" /\ inv[t] = queue[i]
    /\ \A k \in 1..Len(delivered) :
          /\ delivered[k].waiter = k
          /\ delivered[k].frame.for = k
          /\ WaiterOfLine(k) = k

\* C4: once the reader has failed, every task inside try_command leaves it.
C4_NoCallerWaitsForever ==
    (rd.pc = "panicked") ~> (\A t \in Tasks : ~InFlight(t))

\* C6: once the Conn is dropped both tasks are gone, no further line is
\* written and no further waiter is popped.
C6_TeardownAborts ==
    [][torn' => /\ ReaderGone'
                /\ KeepaliveGone'
                /\ torn => /\ wire' = wire
                           /\ delivered' = delivered
                           /\ queue' = queue]_vars

\* C6 witness: the Conn was dropped, aborting both tasks, while a frame was
\* still unread and the keepalive task had pings left to send.
C6_Witness ==
    /\ torn
    /\ rd.pc = "aborted"
    /\ pc[KA] = "aborted"
    /\ stream # <<>>
    /\ Started < MaxInv

\* C7: a caller fails with an ErrorResponse only when the daemon answered
\* its own command with an error line, and the failure carries that line.
C7_ErrorIsolated ==
    \A r \in returned :
        r.res.why = "ErrorResponse"
           => r.res.frame.kind = "Err"
              /\ WaiterOfLine(r.res.frame.for) = r.inv

PingLines == {k \in 1..Len(wire) : wire[k].name = ch_ping}

\* C8: a ping answered by a frame, error frames included, sends the
\* keepalive task back to sleep (an error frame logging one warning); a ping
\* whose submission fails stops the task, and a stopped task stays stopped
\* and writes no further ping.
C8_Keepalive ==
    [][/\ (pc[KA] = "await" /\ pc'[KA] \notin {"await", "aborted"})
            => /\ IsFrame(slot[KA])
               /\ pc'[KA] = "sleep"
               /\ kalog' = kalog + (IF slot[KA].kind = "Err" THEN 1 ELSE 0)
       /\ (pc[KA] = "pushed" /\ pc'[KA] \notin {"pushed", "await", "aborted"})
            => pc'[KA] = "stopped"
       /\ pc[KA] = "stopped"
            => pc'[KA] = "stopped" /\ PingLines' = PingLines]_vars

\* C8 witness: a ping was answered with an error response, the task pinged
\* again, and that ping failed at the transport.
C8_Witness ==
    /\ kalog > 0
    /\ pc[KA] = "stopped"
    /\ Cardinality(PingLines) = 1

\* C25: whenever conn_reader has read a frame, the waiter queue is not empty:
\* the unreachable!() branch is never taken, in any interleaving of callers,
\* keepalive and reader, with a daemon that sends one frame per command line
\* it has received.
C25_QueueNonEmptyOnFrame ==
    /\ rd.pc # "unreachable"
    /\ rd.pc = "gotframe" => queue # <<>>

\* C25 witness: the reader holds a frame it has just read while a submitter
\* holds the queue, and frames were handed over before.
C25_Witness ==
    /\ rd.pc = "gotframe"
    /\ qlock # Free
    /\ delivered # <<>>

\* the place on the wire of the line task t is waiting on, 0 if none
LineOfTask(t) ==
    IF \E k \in 1..Len(wire) : wire[k].inv = inv[t]
    THEN CHOOSE k \in 1..Len(wire) : wire[k].inv = inv[t]
    ELSE 0

\* C26: once the reader has read and handed over the frame that answers a
\* caller's command, that caller has its result: it waits neither for the
\* response to another command nor for another caller to pick up its result.
C26_NoHeadOfLineBlocking ==
    \A t \in Tasks :
       (/\ pc[t] = "await"
        /\ LineOfTask(t) > 0
        /\ LineOfTask(t) <= Len(delivered))
          => IsFrame(slot[t])

\* C30: for a command other than idle the writer lock is released once its
\* line is written, before its response is awaited; the lock is only ever
\* held by a task that is writing or by an idle that awaits its response.
C30_WriterReleased ==
    /\ \A t \in Tasks :
          (pc[t] = "await" /\ ~is_idle(cmd[t].name)) => writer # t
    /\ writer # Free
          => \/ pc[writer] = "pushed"
             \/ pc[writer] = "await" /\ is_idle(cmd[writer].name)

\* C30 witness: two command lines are on the wire, neither answered, and the
\* writer lock is free.
C30_Witness ==
    /\ Len(wire) = 2
    /\ peer.answered = 0
    /\ \A k \in 1..2 : ~is_idle(wire[k].name)
    /\ \E t \in Tasks : pc[t] = "await" /\ inv[t] = wire[1].inv
    /\ writer = Free


\* the waiters of the lines on the wire whose frame has not been handed over
Unanswered ==
    [k \in 1..(Len(wire) - Len(delivered)) |-> WaiterOfLine(Len(delivered) + k)]

\* the tasks between taking the writer lock and finishing their write
Writing == {t \in Tasks : pc[t] = "pushed"}

\* C31: a waiter is pushed by a task that holds the writer lock and has not
\* written its line yet, at most one task is between taking the writer lock
\* and the end of its write, and so the waiters in the queue are, in order,
\* those of the lines on the wire that are not answered yet (then the one of
\* the line being written)
C31_QueueOrderIsWireOrder ==
    ~torn =>
        /\ Cardinality(Writing) <= 1
        /\ \A t \in Writing :
              /\ writer = t /\ qlock = t
              /\ queue # <<>> /\ queue[Len(queue)] = inv[t]
              /\ \A k \in 1..Len(wire) : WaiterOfLine(k) # inv[t]
        /\ queue = Unanswered
                   \o (IF Writing = {} THEN <<>> ELSE <<inv[CHOOSE t \in Writing : TRUE]>>)

\* the submissions that failed to encode
EncodingFailures == {r \in returned : r.res.why = "EncodingError"}

\* C33: a command() that fails with an encoding error leaves nothing on the
\* wire and no waiter in the queue, and every command that gets a frame after
\* it gets the frame answering its own line
C33_EncodingErrorLeavesNoTrace ==
    /\ \A r \in EncodingFailures :
          /\ \A k \in 1..Len(wire) : WaiterOfLine(k) # r.inv
          /\ \A i \in 1..Len(queue) : queue[i] # r.inv
          /\ \A k \in 1..Len(delivered) : delivered[k].waiter # r.inv
    /\ EncodingFailures # {} =>
          \A k \in 1..Len(delivered) :
              delivered[k].waiter = WaiterOfLine(delivered[k].frame.for)

\* the lines whose caller dropped its future while it waited for the response
Abandoned ==
    {k \in 1..Len(wire) :
        /\ \A t \in Tasks : inv[t] # WaiterOfLine(k)
        /\ \A r \in returned : r.inv # WaiterOfLine(k)
        /\ wire[k].name # ch_ping}

\* C34: when a caller has abandoned a command whose line is written, the
\* reader still pops that waiter with the frame answering that line, and
\* every other caller that gets a frame gets the one answering its own line
C34_AbandonedWaiterPopped ==
    Abandoned # {} =>
        /\ \A k \in Abandoned :
              k <= Len(delivered) =>
                  /\ delivered[k].waiter = WaiterOfLine(k)
                  /\ delivered[k].frame.for = k
        /\ \A r \in returned :
              IsFrame(r.res.frame) => wire[r.res.frame.for].inv = r.inv

\* C35: while the daemon answers and the connection is kept, every task
\* inside try_command, a domain caller or the keepalive task, leaves it
C35_EveryCommandReturns ==
    \A t \in Tasks :
        [](peer.state = "up" /\ ~torn) => (InFlight(t) ~> ~InFlight(t))

----------------------------------------------------------------------------
(* Frame reader: MpdReader::read_response, read_binary *)

\* response chunks explored in one input stream
MaxChunks == 4

\* BufReader::read_line: the bytes up to and including the first newline, or
\* all that is left at end of stream
RECURSIVE LineEnd(_, _)
LineEnd(s, i) ==
    IF i > Len(s) THEN Len(s)
    ELSE IF s[i] = NL THEN i
    ELSE LineEnd(s, i + 1)

read_line(s) ==
    LET n == LineEnd(s, 1) IN
    [buff |-> SubSeq(s, 1, n), rest |-> SubSeq(s, n + 1, Len(s))]

\* a prefix test that hands back the whole line, tag included
prefixed_KeepTag(prefix, s) ==
    IF starts_with(s, prefix) THEN Some(s) ELSE None

\* prefixed(prefix, s): Some(&s[prefix.len()..]) or None
prefixed(prefix, s) ==
    IF starts_with(s, prefix)
    THEN Some(SubSeq(s, Len(prefix) + 1, Len(s)))
    ELSE None

RECURSIVE Find(_, _, _)
Find(s, c, i) ==
    IF i > Len(s) THEN 0
    ELSE IF s[i] = c THEN i
    ELSE Find(s, c, i + 1)

\* a split that treats a line without a colon as a key with an empty value
split_once_Lenient(s, c) ==
    LET i == Find(s, c, 1) IN
    IF i = 0 THEN Some(<<s, <<>>>>)
    ELSE Some(<<SubSeq(s, 1, i - 1), SubSeq(s, i + 1, Len(s))>>)

\* str::split_once: the text before and after the first c, or None
split_once(s, c) ==
    LET i == Find(s, c, 1) IN
    IF i = 0 THEN None
    ELSE Some(<<SubSeq(s, 1, i - 1), SubSeq(s, i + 1, Len(s))>>)

DigitVal(c) ==
    CASE c = "0" -> 0 [] c = "1" -> 1 [] c = "2" -> 2 [] c = "3" -> 3
      [] c = "4" -> 4 [] c = "5" -> 5 [] c = "6" -> 6 [] c = "7" -> 7
      [] c = "8" -> 8 [] c = "9" -> 9 [] OTHER -> -1

RECURSIVE ParseDigits(_, _)
ParseDigits(s, acc) ==
    IF s = <<>> THEN acc
    ELSE IF DigitVal(Head(s)) < 0 THEN -1
    ELSE ParseDigits(Tail(s), acc * 10 + DigitVal(Head(s)))

\* str::parse::<usize>: an optional '+' and at least one digit; -1 for Err
parse_usize(s) ==
    LET digits == IF s # <<>> /\ Head(s) = "+" THEN Tail(s) ELSE s IN
    IF digits = <<>> THEN -1 ELSE ParseDigits(digits, 0)

\* Vec::with_capacity(len): an empty vector (the capacity is not a length)
VecWithCapacity(len) == <<>>

\* read_exact(buf): fills buf, that is reads Len(buf) bytes, or fails
read_exact(s, buf) ==
    IF Len(s) < Len(buf) THEN [ok |-> FALSE, buf |-> buf, rest |-> <<>>]
    ELSE [ok |-> TRUE, buf |-> SubSeq(s, 1, Len(buf)),
          rest |-> SubSeq(s, Len(buf) + 1, Len(s))]

ch_OK == <<"O", "K">>
ch_ACK == <<"A", "C", "K", SP>>
ch_binary == <<"b", "i", "n", "a", "r", "y", ":", SP>>

BinErr(msg, rest) == [ok |-> FALSE, bin |-> <<>>, rest |-> rest, msg |-> msg]

\* read_binary(len) on the bytes s that follow the "binary: " line
read_binary(len, s) ==
    LET n == parse_usize(len) IN
    IF n < 0 THEN BinErr("parsing length of binary data", s)
    ELSE LET r == read_exact(s, VecWithCapacity(n)) IN
         IF ~r.ok THEN BinErr("reading binary data", r.rest)
         ELSE IF r.rest = <<>>
              THEN BinErr("reading binary trailing newline", r.rest)
         ELSE IF Head(r.rest) # NL
              THEN BinErr("binary data did not end with trailing newline",
                          Tail(r.rest))
         ELSE [ok |-> TRUE, bin |-> r.buf, rest |-> Tail(r.rest), msg |-> ""]

OkResponse(attrs, bin) == [tag |-> "Ok", attributes |-> attrs, binary |-> bin,
                           line |-> <<>>]
ErrorResponse(line) == [tag |-> "Err", attributes |-> <<>>, binary |-> None,
                        line |-> line]
NoError == [variant |-> "", msg |-> ""]
ProtocolError(msg) == [variant |-> "ProtocolError", msg |-> msg]

\* one turn of read_response's loop; a completed response is handed to
\* conn_reader, whose loop calls read_response again with fresh locals
ReadResponseStep ==
    /\ rpc = "reading"
    /\ LET rl == read_line(input)
           line == trim_end(rl.buff)
           Return(resp) ==
               /\ frames' = Append(frames, resp)
               /\ attributes' = <<>>
               /\ binary' = None
               /\ input' = rl.rest
               /\ UNCHANGED <<rpc, rerr>>
           Fail(err, rest) ==
               /\ rpc' = "failed"
               /\ rerr' = err
               /\ input' = rest
               /\ UNCHANGED <<frames, attributes, binary>>
       IN
       /\ lastline' = line
       /\ IF Len(rl.buff) = 0 THEN Fail(ProtocolError("connection eof"), <<>>)
          ELSE IF line = ch_OK THEN Return(OkResponse(attributes, binary))
          ELSE IF prefixed(ch_ACK, line) # None
               THEN Return(ErrorResponse(prefixed(ch_ACK, line)[2]))
          ELSE IF prefixed(ch_binary, line) # None
               THEN LET b == read_binary(prefixed(ch_binary, line)[2], rl.rest) IN
                    IF b.ok
                    THEN /\ binary' = Some(b.bin)
                         /\ input' = b.rest
                         /\ UNCHANGED <<rpc, rerr, frames, attributes>>
                    ELSE Fail(ProtocolError(b.msg), b.rest)
          ELSE IF split_once(line, ":") # None
               THEN LET kv == split_once(line, ":")[2] IN
                    /\ attributes' = Append(attributes, <<kv[1], trim_start(kv[2])>>)
                    /\ input' = rl.rest
                    /\ UNCHANGED <<rpc, rerr, frames, binary>>
          ELSE Fail(ProtocolError("unrecognised response line from mpd"), rl.rest)
    /\ UNCHANGED orig
    /\ UNCHANGED <<muxvars, connvars, wrvars, atvars, appvars>>

\* what the daemon may send, piece by piece
Chunks ==
    { <<"O", "K", NL>>,
      <<"A", "C", "K", SP, "e", NL>>,
      <<"k", ":", SP, "v", NL>>,
      <<"k", ":", SP, SP, "v", NL>>,
      <<"j", "u", "n", "k", NL>>,
      <<"b", "i", "n", "a", "r", "y", ":", SP, "0", NL>>,
      <<"b", "i", "n", "a", "r", "y", ":", SP, "1", NL>>,
      <<"b", "i", "n", "a", "r", "y", ":", SP, "2", NL>>,
      <<"b", "i", "n", "a", "r", "y", ":", SP, "5", NL>>,
      <<"a">>,
      <<"a", "b">>,
      <<NL>> }

RECURSIVE Streams(_)
Streams(n) ==
    IF n = 0 THEN {<<>>}
    ELSE LET shorter == Streams(n - 1) IN
         shorter \cup {s \o c : s \in shorter, c \in Chunks}

ReaderInit ==
    /\ input \in Streams(MaxChunks)
    /\ orig = input
    /\ rpc = "reading"
    /\ attributes = <<>>
    /\ binary = None
    /\ frames = <<>>
    /\ rerr = NoError
    /\ lastline = <<>>

InitReader == MuxInit /\ ReaderInit /\ ConnUp /\ WriterOff /\ AttrsOff /\ AppOff

NextReader == ReadResponseStep

SpecReader == InitReader /\ [][NextReader]_vars

----------------------------------------------------------------------------
(* Properties of the frame reader *)

BinaryLine(n) == ch_binary \o <<CASE n = 0 -> "0" [] n = 1 -> "1" [] OTHER -> "2">> \o <<NL>>

\* the byte strings of length n the daemon may send as a payload
Payloads(n) == {p \in {<<>>, <<"a">>, <<NL>>, <<"a", "b">>} : Len(p) = n}

\* read_response has returned, with a response or an error
FirstDone == frames # <<>> \/ rpc = "failed"

\* C9: "binary: N", N bytes, a newline and OK decode to an Ok frame whose
\* payload is those N bytes; if the byte after the N payload bytes is not a
\* newline, or fewer than N+1 bytes follow, the read fails with a protocol
\* error and no frame.
C9_BinaryFrame ==
    \A n \in 0..2 :
       /\ \A p \in Payloads(n) :
             (FirstDone /\ starts_with(orig, BinaryLine(n) \o p \o <<NL>> \o ch_OK \o <<NL>>))
                => /\ frames # <<>>
                   /\ frames[1] = OkResponse(<<>>, Some(p))
       /\ LET rest == SubSeq(orig, Len(BinaryLine(n)) + 1, Len(orig)) IN
          (/\ FirstDone
           /\ starts_with(orig, BinaryLine(n))
           /\ (Len(rest) < n + 1 \/ rest[n + 1] # NL))
             => /\ frames = <<>>
                /\ rerr.variant = "ProtocolError"

\* a line that is none of the four shapes read_response knows
Unrecognised(line) ==
    /\ line # ch_OK
    /\ ~starts_with(line, ch_ACK)
    /\ ~starts_with(line, ch_binary)
    /\ \A i \in 1..Len(line) : line[i] # ":"

\* the next line read_response will handle
NextLine == trim_end(read_line(input).buff)

\* C10: a line that is not OK, has neither the ACK nor the binary prefix and
\* holds no colon makes read_response fail with a protocol error: no frame is
\* produced and nothing is attached to the current response.
C10_UnrecognisedLineFatal ==
    [][(rpc = "reading" /\ input # <<>> /\ Unrecognised(NextLine))
          => /\ rpc' = "failed"
             /\ rerr'.variant = "ProtocolError"
             /\ frames' = frames
             /\ attributes' = attributes
             /\ binary' = binary]_vars

\* C10 witness: the read failed on an unrecognised line that followed a
\* key: value line of the same response.
C10_Witness ==
    /\ rpc = "failed"
    /\ rerr = ProtocolError("unrecognised response line from mpd")
    /\ Unrecognised(lastline)
    /\ attributes # <<>>

\* the last response read_response returned
LastFrame == frames[Len(frames)]

\* the text of a line after its first n characters
After(line, n) == SubSeq(line, n + 1, Len(line))

\* C11: a line prefixed with "ACK " completes the response as an Error frame
\* whose diagnostic is the rest of that line after the tag, whatever key: value
\* lines came before it in the same response (the line is taken as
\* read_response takes it, without its terminator and trailing whitespace).
C11_AckFrame ==
    starts_with(lastline, ch_ACK)
       => /\ rpc = "reading"
          /\ frames # <<>>
          /\ LastFrame = ErrorResponse(After(lastline, Len(ch_ACK)))
          /\ LastFrame.attributes = <<>>
          /\ attributes = <<>>

\* C11 witness: an ACK line that followed a key: value line of the same
\* response has completed an Error frame.
C11_Witness ==
    /\ starts_with(orig, <<"k", ":", SP, "v", NL, "A", "C", "K", SP, "e", NL>>)
    /\ Len(frames) = 1
    /\ frames[1] = ErrorResponse(<<"e">>)
    /\ lastline = <<"A", "C", "K", SP, "e">>

\* a key: value line: none of OK, ACK, binary, and it holds a colon
KeyValueLine(line) ==
    /\ line # ch_OK
    /\ ~starts_with(line, ch_ACK)
    /\ ~starts_with(line, ch_binary)
    /\ Find(line, ":", 1) > 0

\* a value with at most one leading space removed
StripOneSpace(s) == IF s # <<>> /\ Head(s) = SP THEN Tail(s) ELSE s

\* C12: a key: value line appends the pair whose key is the text before the
\* first colon and whose value is the rest after that colon with at most one
\* leading space removed.
C12_KeyValue ==
    KeyValueLine(lastline)
       => /\ attributes # <<>>
          /\ attributes[Len(attributes)] =
                <<SubSeq(lastline, 1, Find(lastline, ":", 1) - 1),
                  StripOneSpace(After(lastline, Find(lastline, ":", 1)))>>

\* s without its leading spaces
RECURSIVE SkipSpaces(_)
SkipSpaces(s) == IF s # <<>> /\ Head(s) = SP THEN SkipSpaces(Tail(s)) ELSE s

\* the frames a stream holds, read line by line: `pairs` are the key: value
\* lines since the last terminator, `out` the frames closed so far, each Ok
\* frame with its pairs.  A binary line is followed by the bytes it announces
\* and a newline, none of them a line.  The reading ends at the first line
\* that is not complete or not recognised.
RECURSIVE FramesOf(_, _, _)
FramesOf(s, pairs, out) ==
    LET nl == Find(s, NL, 1)
        line == SubSeq(s, 1, nl - 1)
        rest == SubSeq(s, nl + 1, Len(s))
        colon == Find(line, ":", 1)
    IN IF nl = 0 THEN out
       ELSE IF line = ch_OK
            THEN FramesOf(rest, <<>>, Append(out, [tag |-> "Ok", pairs |-> pairs]))
       ELSE IF starts_with(line, ch_ACK)
            THEN FramesOf(rest, <<>>, Append(out, [tag |-> "Err", pairs |-> <<>>]))
       ELSE IF starts_with(line, ch_binary)
            THEN LET len == parse_usize(After(line, Len(ch_binary))) IN
                 IF len >= 0 /\ Len(rest) > len /\ rest[len + 1] = NL
                 THEN FramesOf(After(rest, len + 1), pairs, out)
                 ELSE out
       ELSE IF colon > 0
            THEN FramesOf(rest,
                          Append(pairs, <<SubSeq(line, 1, colon - 1),
                                          SkipSpaces(After(line, colon))>>),
                          out)
       ELSE out

\* C32: every frame is decoded on its own: the attributes of an Ok frame are
\* the key: value lines received since the terminator line before it, in the
\* order received, with nothing of an earlier or a later frame, and an error
\* frame carries none
C32_FrameIndependent ==
    LET expected == FramesOf(orig, <<>>, <<>>) IN
    \A k \in 1..Len(frames) :
        (k <= Len(expected) /\ frames[k].tag = expected[k].tag)
            => frames[k].attributes = expected[k].pairs

\* C13: a zero-length read is surfaced as a condition of another kind than
\* the protocol error returned for an unrecognised line or bad binary framing.
C13_EofDistinct ==
    [][(rpc = "reading" /\ input = <<>>)
          => /\ rpc' = "failed"
             /\ rerr'.variant # ProtocolError("unrecognised response line from mpd").variant]_vars

----------------------------------------------------------------------------
(* Frame writer on its own: one call of MpdWriter::send_command *)

\* most arguments of a call explored, and most characters in all of them
MaxArgs == 2
MaxArgChars == 3

\* what an argument is made of: an ordinary character, the two characters
\* send_command escapes, and the newline it rejects
ArgChars == {"a", QUOTE, BACKSLASH, NL}

RECURSIVE ArgStrings(_)
ArgStrings(n) ==
    IF n = 0 THEN {<<>>}
    ELSE LET shorter == ArgStrings(n - 1) IN
         shorter \cup {Append(x, c) : x \in shorter, c \in ArgChars}

\* the lists of at most n arguments with at most `chars` characters in all
RECURSIVE ArgLists(_, _)
ArgLists(n, chars) ==
    IF n = 0 THEN {<<>>}
    ELSE {<<>>} \cup UNION { {<<a>> \o l : l \in ArgLists(n - 1, chars - Len(a))} :
                               a \in ArgStrings(chars) }

\* command names are literals of the domain client
WriterCalls ==
    {[cmd |-> c, args |-> a] : c \in {ch_addid, ch_ping, ch_idle},
                               a \in ArgLists(MaxArgs, MaxArgChars)}

WriterInit ==
    /\ call \in WriterCalls
    /\ sock = <<>>
    /\ sent = "none"

\* writer.send_command(cmd, args).await on a socket that takes the write
\* (sock_ok) or refuses it
WriterSend(sock_ok) ==
    /\ sent = "none"
    /\ LET r == send_command(call.cmd, call.args, sock_ok) IN
       /\ sock' = sock \o r.written
       /\ sent' = r.tag
    /\ UNCHANGED call
    /\ UNCHANGED <<muxvars, rdvars, connvars, atvars, appvars>>

InitWriter == MuxInit /\ ReaderOff /\ ConnUp /\ WriterInit /\ AttrsOff /\ AppOff

NextWriter == \E sock_ok \in BOOLEAN : WriterSend(sock_ok)

SpecWriter == InitWriter /\ [][NextWriter]_vars

----------------------------------------------------------------------------
(* Properties of the frame writer *)

RECURSIVE Flatten(_)
Flatten(ss) == IF ss = <<>> THEN <<>> ELSE Head(ss) \o Flatten(Tail(ss))

HasNewline(arg) == \E i \in 1..Len(arg) : arg[i] = NL
NewlineFree(args) == \A i \in 1..Len(args) : ~HasNewline(args[i])

\* an argument in double quotes, a backslash before every quote and backslash
Quoted(arg) ==
    <<QUOTE>>
    \o Flatten([i \in 1..Len(arg) |->
                   IF arg[i] \in {QUOTE, BACKSLASH} THEN <<BACKSLASH, arg[i]>>
                   ELSE <<arg[i]>>])
    \o <<QUOTE>>

\* C15: for newline-free arguments send_command emits exactly one line: the
\* command name, then for each argument in order a space and the argument in
\* double quotes with every quote and backslash escaped, then one newline.
C15_OneLine ==
    (sent # "none" /\ NewlineFree(call.args))
       => /\ sent \in {"Ok", "IoError"}
          /\ sent = "Ok" =>
                /\ sock = call.cmd
                          \o Flatten([i \in 1..Len(call.args) |->
                                         <<SP>> \o Quoted(call.args[i])])
                          \o <<NL>>
                /\ Find(sock, NL, 1) = Len(sock)

\* C15 witness: a call with two arguments holding a quote and a backslash was
\* written.
C15_Witness ==
    /\ sent = "Ok"
    /\ call.cmd = ch_addid
    /\ call.args = << <<"a", QUOTE>>, <<BACKSLASH>> >>
    /\ sock = ch_addid \o <<SP, QUOTE, "a", BACKSLASH, QUOTE, QUOTE,
                              SP, QUOTE, BACKSLASH, BACKSLASH, QUOTE, NL>>

\* C16: an argument with a newline makes send_command return an encoding
\* error with not one byte of the command written.
C16_NewlineRejected ==
    (sent # "none" /\ ~NewlineFree(call.args))
       => /\ sent = "EncodingError"
          /\ sock = <<>>

\* C16 witness: the call failed on a newline in its second argument, after a
\* first argument without one.
C16_Witness ==
    /\ sent = "EncodingError"
    /\ call.args = << <<"a">>, <<"a", NL>> >>
    /\ sock = <<>>

\* the receiving side of the wire format: the quoted words of a line, each
\* from its opening quote to the quote that closes it (a backslash takes the
\* character after it along); `word` is the word being read, <<>> outside one
RECURSIVE QuotedWords(_, _, _, _)
QuotedWords(s, i, word, words) ==
    IF i > Len(s) THEN (IF word = <<>> THEN words ELSE Append(words, word))
    ELSE IF word = <<>>
         THEN QuotedWords(s, i + 1, IF s[i] = QUOTE THEN <<QUOTE>> ELSE <<>>, words)
    ELSE IF s[i] = BACKSLASH /\ i < Len(s)
         THEN QuotedWords(s, i + 2, word \o <<s[i], s[i + 1]>>, words)
    ELSE IF s[i] = QUOTE
         THEN QuotedWords(s, i + 1, <<>>, Append(words, Append(word, QUOTE)))
    ELSE QuotedWords(s, i + 1, Append(word, s[i]), words)

\* un-escaping: a backslash stands for the character after it
RECURSIVE Unescape(_)
Unescape(s) ==
    IF s = <<>> THEN <<>>
    ELSE IF Head(s) = BACKSLASH /\ Len(s) >= 2
         THEN <<s[2]>> \o Unescape(SubSeq(s, 3, Len(s)))
    ELSE <<Head(s)>> \o Unescape(Tail(s))

\* decoding a quoted word: the surrounding quotes removed, the rest un-escaped
Unquote(word) == Unescape(SubSeq(word, 2, Len(word) - 1))

\* the quoted words of the line written for the call
SentWords == QuotedWords(After(sock, Len(call.cmd)), 1, <<>>, <<>>)

\* C17: for arguments without a newline, decoding the quoted form written to
\* the wire gives back each argument exactly, and two different arguments
\* never have the same quoted form.
C17_QuotingRoundTrip ==
    sent = "Ok"
       => /\ Len(SentWords) = Len(call.args)
          /\ \A i \in 1..Len(call.args) :
                /\ i <= Len(SentWords)
                /\ Unquote(SentWords[i]) = call.args[i]
          /\ \A i, j \in 1..Len(call.args) :
                (i <= Len(SentWords) /\ j <= Len(SentWords)
                   /\ call.args[i] # call.args[j])
                   => SentWords[i] # SentWords[j]

\* C17 witness: two different arguments made of quotes and backslashes were
\* written and read back.
C17_Witness ==
    /\ sent = "Ok"
    /\ call.args = << <<BACKSLASH, QUOTE>>, <<QUOTE>> >>
    /\ SentWords = << <<QUOTE, BACKSLASH, BACKSLASH, BACKSLASH, QUOTE, QUOTE>>,
                      <<QUOTE, BACKSLASH, QUOTE, QUOTE>> >>

----------------------------------------------------------------------------
(* Attribute store: Attributes::get, get_opt, get_one, split_at *)

\* most pairs of a store explored
MaxAttrs == 4

ch_file == <<"f", "i", "l", "e">>
ch_id == <<"i", "d">>
AttrKeys == {ch_file, ch_id}
AttrValues == {<<"a">>, <<"b">>, <<"1">>, <<"2">>}

RECURSIVE Stores(_)
Stores(n) ==
    IF n = 0 THEN {<<>>}
    ELSE LET shorter == Stores(n - 1) IN
         shorter \cup {Append(st, <<k, v>>) : st \in shorter, k \in AttrKeys, v \in AttrValues}

\* a lookup that takes the last pair with the key
get_one_Last(attrs, name) ==
    IF \A i \in 1..Len(attrs) : attrs[i][1] # name THEN None
    ELSE Some(attrs[CHOOSE i \in 1..Len(attrs) :
                       /\ attrs[i][1] = name
                       /\ \A j \in (i + 1)..Len(attrs) : attrs[j][1] # name][2])

\* get_one: attrs.iter().find(|(k, _)| k == name), the value of the first hit
RECURSIVE get_one(_, _)
get_one(attrs, name) ==
    IF attrs = <<>> THEN None
    ELSE IF Head(attrs)[1] = name THEN Some(Head(attrs)[2])
    ELSE get_one(Tail(attrs), name)

AttrOk(v) == [tag |-> "Ok", value |-> v, msg |-> "", key |-> <<>>]
AttrErr(msg, name) == [tag |-> "Err", value |-> None, msg |-> msg, key |-> name]

\* get::<T>(name) for a numeric T: "missing {name} attribute" when get_one
\* finds nothing, "malformed {name} attribute" when parse() fails
get(attrs, name) ==
    LET one == get_one(attrs, name) IN
    IF one = None THEN AttrErr("missing", name)
    ELSE IF parse_usize(one[2]) < 0 THEN AttrErr("malformed", name)
    ELSE AttrOk(parse_usize(one[2]))

\* get_opt::<T>(name): get_one(name).map(parse).transpose()
get_opt(attrs, name) ==
    LET one == get_one(attrs, name) IN
    IF one = None THEN AttrOk(None)
    ELSE IF parse_usize(one[2]) < 0 THEN AttrErr("malformed", name)
    ELSE AttrOk(Some(parse_usize(one[2])))

\* a split where the key closes a group instead of opening one
RECURSIVE split_at_KeyLast(_, _)
split_at_KeyLast(attrs, name) ==
    IF attrs = <<>> THEN <<>>
    ELSE LET i == CHOOSE i \in 1..Len(attrs) :
                     \/ attrs[i][1] = name
                     \/ i = Len(attrs) /\ \A j \in 1..Len(attrs) : attrs[j][1] # name
         IN <<SubSeq(attrs, 1, i)>>
            \o split_at_KeyLast(SubSeq(attrs, i + 1, Len(attrs)), name)

\* the loop of split_at: a new Attributes is pushed when k == name, and the
\* pair goes to splits.last_mut() if there is one
RECURSIVE split_at_loop(_, _, _)
split_at_loop(attrs, name, splits) ==
    IF attrs = <<>> THEN splits
    ELSE LET kv == Head(attrs)
             pushed == IF kv[1] = name THEN Append(splits, <<>>) ELSE splits
             added == IF pushed = <<>> THEN pushed
                      ELSE [pushed EXCEPT ![Len(pushed)] = Append(@, kv)]
         IN split_at_loop(Tail(attrs), name, added)

split_at(attrs, name) == split_at_loop(attrs, name, <<>>)

NotAsked == [method |-> "none", key |-> <<>>]

AttrsInit ==
    /\ store \in Stores(MaxAttrs)
    /\ asked = NotAsked
    /\ answer = None

\* attributes.get(name) on a borrowed store
Get(name) ==
    /\ asked = NotAsked
    /\ asked' = [method |-> "get", key |-> name]
    /\ answer' = get(store, name)
    /\ UNCHANGED store
    /\ UNCHANGED <<muxvars, rdvars, connvars, wrvars, appvars>>

\* attributes.get_opt(name) on a borrowed store
GetOpt(name) ==
    /\ asked = NotAsked
    /\ asked' = [method |-> "get_opt", key |-> name]
    /\ answer' = get_opt(store, name)
    /\ UNCHANGED store
    /\ UNCHANGED <<muxvars, rdvars, connvars, wrvars, appvars>>

\* attributes.split_at(name); `store` keeps the pairs the call was given
SplitAt(name) ==
    /\ asked = NotAsked
    /\ asked' = [method |-> "split_at", key |-> name]
    /\ answer' = split_at(store, name)
    /\ UNCHANGED store
    /\ UNCHANGED <<muxvars, rdvars, connvars, wrvars, appvars>>

InitAttrs == MuxInit /\ ReaderOff /\ ConnUp /\ WriterOff /\ AttrsInit /\ AppOff

NextAttrs ==
    \/ \E name \in AttrKeys : Get(name)
    \/ \E name \in AttrKeys : GetOpt(name)
    \/ \E name \in AttrKeys : SplitAt(name)

SpecAttrs == InitAttrs /\ [][NextAttrs]_vars

----------------------------------------------------------------------------
(* Properties of the attribute store *)

\* the positions of the pairs whose key is name, in order
Occurrences(attrs, name) ==
    LET Hit(i) == attrs[i][1] = name IN
    SelectSeq([i \in 1..Len(attrs) |-> i], Hit)

\* C18: split_at(key) yields one sub-store per occurrence of key, in order;
\* the i-th begins with the i-th occurrence and holds, in order, the pairs
\* that follow up to but not including the next occurrence.
C18_SplitAtGroups ==
    asked.method = "split_at"
       => LET occ == Occurrences(store, asked.key) IN
          /\ Len(answer) = Len(occ)
          /\ \A i \in 1..Len(occ) :
                /\ i <= Len(answer)
                /\ answer[i] = SubSeq(store, occ[i],
                                      IF i < Len(occ) THEN occ[i + 1] - 1
                                      ELSE Len(store))

\* C18 witness: [(file,a),(id,1),(file,b),(id,2)] split at file gave
\* [(file,a),(id,1)] and [(file,b),(id,2)].
C18_Witness ==
    /\ asked = [method |-> "split_at", key |-> ch_file]
    /\ store = << <<ch_file, <<"a">>>>, <<ch_id, <<"1">>>>,
                  <<ch_file, <<"b">>>>, <<ch_id, <<"2">>>> >>
    /\ answer = << << <<ch_file, <<"a">>>>, <<ch_id, <<"1">>>> >>,
                   << <<ch_file, <<"b">>>>, <<ch_id, <<"2">>>> >> >>

\* C19: the sub-stores of split_at(key), put one after the other, are the
\* whole input sequence.
C19_SplitAtPartition ==
    asked.method = "split_at" => Flatten(answer) = store

\* the first pair of attrs with the key, 0 if there is none
FirstWith(attrs, name) ==
    IF \A i \in 1..Len(attrs) : attrs[i][1] # name THEN 0
    ELSE CHOOSE i \in 1..Len(attrs) :
            /\ attrs[i][1] = name
            /\ \A j \in 1..(i - 1) : attrs[j][1] # name

\* C20: get(key) parses the first value stored for key, fails with a
\* "missing" error naming key when key is absent and a "malformed" error
\* naming key when that first value does not parse; get_opt(key) returns none
\* when key is absent and fails when the first value does not parse; neither
\* changes the store.
C20_GetFirst ==
    [][asked'.method \in {"get", "get_opt"}
          => LET name == asked'.key
                 first == FirstWith(store, name)
                 value == IF first = 0 THEN -1 ELSE parse_usize(store[first][2])
             IN
             /\ store' = store
             /\ asked'.method = "get" =>
                   answer' = IF first = 0 THEN AttrErr("missing", name)
                             ELSE IF value < 0 THEN AttrErr("malformed", name)
                             ELSE AttrOk(value)
             /\ asked'.method = "get_opt" =>
                   answer' = IF first = 0 THEN AttrOk(None)
                             ELSE IF value < 0 THEN AttrErr("malformed", name)
                             ELSE AttrOk(Some(value))]_vars

\* C20 witness: get_opt failed on a first value that does not parse although
\* a later value for the same key does.
C20_Witness ==
    /\ asked = [method |-> "get_opt", key |-> ch_id]
    /\ store = << <<ch_file, <<"a">>>>, <<ch_id, <<"b">>>>, <<ch_id, <<"2">>>> >>
    /\ answer = AttrErr("malformed", ch_id)

----------------------------------------------------------------------------
(* Connection set-up: Mpd::connect, Conn::connect, MpdReader::open *)

ch_OK_MPD == <<"O", "K", SP, "M", "P", "D", SP>>

\* what the daemon's socket may hold when MpdReader::open reads from it
Greetings ==
    { ch_OK_MPD \o <<"1", NL>>,
      ch_OK_MPD \o <<"2", NL>>,
      ch_OK_MPD \o <<"1">>,
      ch_OK_MPD \o <<NL>>,
      <<>>,
      <<NL>>,
      <<"O", "K", NL>>,
      <<"O", "K", SP, "M", "P", "D", NL>>,
      <<"A", "C", "K", SP, "e", NL>>,
      <<"j", "u", "n", "k", NL>> \o ch_OK_MPD \o <<"1", NL>> }

\* MpdReader::open on the bytes s: one read_line, trim_end, prefixed
open(s) ==
    LET rl == read_line(s)
        line == trim_end(rl.buff)
        version == prefixed(ch_OK_MPD, line)
    IN [ok |-> version # None,
        protocol |-> IF version = None THEN None
                     ELSE Some([version |-> version[2]]),
        rest |-> rl.rest]

\* tasks spawned before the greeting has been looked at
spawned_BeforeOpen(opened) == TRUE

\* Conn::connect spawns conn_reader and conn_keepalive after
\* MpdReader::open(rx).await? has returned Ok
spawned(opened) == opened

\* the state before Mpd::connect is called: no socket, no task, no caller
ConnInit ==
    /\ pc = [t \in Tasks |-> IF t = KA THEN "unspawned" ELSE "noconn"]
    /\ cmd = [t \in Tasks |-> NoCmd]
    /\ inv = [t \in Tasks |-> 0]
    /\ npush = 0
    /\ writer = Free
    /\ qlock = Free
    /\ queue = <<>>
    /\ slot = [t \in Tasks |-> Empty]
    /\ wire = <<>>
    /\ peer = [answered |-> 0, state |-> "greeting"]
    /\ stream = <<>>
    /\ rd = [pc |-> "unspawned", response |-> Empty]
    /\ nread = 0
    /\ delivered = <<>>
    /\ returned = {}
    /\ kalog = 0
    /\ torn = FALSE
    /\ conn = "connecting"
    /\ proto = None
    /\ input \in Greetings
    /\ orig = <<>>
    /\ rpc = "off"
    /\ attributes = <<>>
    /\ binary = None
    /\ frames = <<>>
    /\ rerr = NoError
    /\ lastline = <<>>

\* Conn::connect: UnixStream::connect(..).await? (reachable or not), then
\* MpdReader::open(rx).await?, then the two tasks are spawned.  On an error
\* the socket halves are dropped.
ConnConnect(reachable) ==
    /\ conn = "connecting"
    /\ IF ~reachable
       THEN /\ conn' = "failed"
            /\ peer' = [peer EXCEPT !.state = "refused"]
            /\ UNCHANGED <<input, proto, pc, rd>>
       ELSE LET o == open(input) IN
            /\ input' = o.rest
            /\ conn' = IF o.ok THEN "spawned" ELSE "failed"
            /\ proto' = o.protocol
            /\ peer' = [peer EXCEPT !.state = IF o.ok THEN "up" ELSE "closed"]
            /\ rd' = IF spawned(o.ok) THEN [pc |-> "read", response |-> Empty]
                     ELSE rd
            /\ pc' = IF spawned(o.ok) THEN [pc EXCEPT ![KA] = "sleep"] ELSE pc
    /\ UNCHANGED <<cmd, inv, npush, writer, qlock, queue, slot, wire, stream,
                   nread, delivered, returned, kalog, torn>>
    /\ UNCHANGED <<orig, rpc, attributes, binary, frames, rerr, lastline>>
    /\ UNCHANGED <<wrvars, atvars, appvars>>

\* Mpd::connect: logs proto.version and returns Mpd { conn }; from here on
\* callers can issue commands
MpdConnect ==
    /\ conn = "spawned"
    /\ conn' = "returned"
    /\ proto' = None
    /\ pc' = [t \in Tasks |-> IF t \in Callers THEN "ready" ELSE pc[t]]
    /\ UNCHANGED <<cmd, inv, npush, writer, qlock, queue, slot, wire, peer,
                   stream, rd, nread, delivered, returned, kalog, torn>>
    /\ UNCHANGED <<rdvars, wrvars, atvars, appvars>>

InitConnect == ConnInit /\ WriterOff /\ AttrsOff /\ AppOff

NextConnect ==
    \/ \E reachable \in BOOLEAN : ConnConnect(reachable)
    \/ MpdConnect
    \/ Next

SpecConnect == InitConnect /\ [][NextConnect]_vars

----------------------------------------------------------------------------
(* Typed decoding: Status::from_attributes, Changed, MpdEvent (types.rs) *)

\* the string literals of the domain client: attribute keys and values of
\* types.rs, command names of impl Mpd, the prefix of Command's Display
ch ==
    [ state |-> <<"s", "t", "a", "t", "e">>,
      song |-> <<"s", "o", "n", "g">>,
      songid |-> <<"s", "o", "n", "g", "i", "d">>,
      elapsed |-> <<"e", "l", "a", "p", "s", "e", "d">>,
      duration |-> <<"d", "u", "r", "a", "t", "i", "o", "n">>,
      audio |-> <<"a", "u", "d", "i", "o">>,
      playlist |-> <<"p", "l", "a", "y", "l", "i", "s", "t">>,
      repeat |-> <<"r", "e", "p", "e", "a", "t">>,
      random |-> <<"r", "a", "n", "d", "o", "m">>,
      single |-> <<"s", "i", "n", "g", "l", "e">>,
      volume |-> <<"v", "o", "l", "u", "m", "e">>,
      changed |-> <<"c", "h", "a", "n", "g", "e", "d">>,
      play |-> <<"p", "l", "a", "y">>,
      pause |-> <<"p", "a", "u", "s", "e">>,
      stop |-> <<"s", "t", "o", "p">>,
      database |-> <<"d", "a", "t", "a", "b", "a", "s", "e">>,
      delete |-> <<"d", "e", "l", "e", "t", "e">>,
      deleteid |-> <<"d", "e", "l", "e", "t", "e", "i", "d">>,
      load |-> <<"l", "o", "a", "d">>,
      setvol |-> <<"s", "e", "t", "v", "o", "l">>,
      status |-> <<"s", "t", "a", "t", "u", "s">>,
      next |-> <<"n", "e", "x", "t">>,
      previous |-> <<"p", "r", "e", "v", "i", "o", "u", "s">>,
      seekcur |-> <<"s", "e", "e", "k", "c", "u", "r">>,
      playlistclear |-> <<"p", "l", "a", "y", "l", "i", "s", "t", "c", "l", "e", "a", "r">>,
      playlistadd |-> <<"p", "l", "a", "y", "l", "i", "s", "t", "a", "d", "d">>,
      args |-> <<"a", "r", "g", "s", ":", " ">> ]


\* most 'changed' pairs of an idle response explored
MaxChanged == 3

\* get_all: the values of the pairs whose key is name, in order
get_all(attrs, name) ==
    LET Hit(kv) == kv[1] = name
        hits == SelectSeq(attrs, Hit)
    IN [i \in 1..Len(hits) |-> hits[i][2]]

\* get_bool(name): "0" is false, "1" is true, an absent or other value fails
get_bool(attrs, name) ==
    LET one == get_one(attrs, name) IN
    IF one = None THEN AttrErr("missing", name)
    ELSE IF one[2] = <<"0">> THEN AttrOk(FALSE)
    ELSE IF one[2] = <<"1">> THEN AttrOk(TRUE)
    ELSE AttrErr("malformed", name)

\* get_opt::<T>(name) for a T whose FromStr cannot fail (Id, String)
get_opt_string(attrs, name) ==
    LET one == get_one(attrs, name) IN
    IF one = None THEN AttrOk(None) ELSE AttrOk(Some(one[2]))

\* str::parse::<f64> on the decimal forms the daemon sends: digits with an
\* optional one-digit fraction; the value in tenths, -1 for Err
parse_f64(s) ==
    LET dot == Find(s, ".", 1) IN
    IF dot = 0
    THEN (IF parse_usize(s) < 0 THEN -1 ELSE parse_usize(s) * 10)
    ELSE LET whole == SubSeq(s, 1, dot - 1)
             frac == SubSeq(s, dot + 1, Len(s))
         IN IF Len(frac) # 1 THEN -1
            ELSE IF parse_usize(whole) < 0 \/ DigitVal(frac[1]) < 0 THEN -1
            ELSE parse_usize(whole) * 10 + DigitVal(frac[1])

\* get_opt::<Seconds>(name)
get_opt_seconds(attrs, name) ==
    LET one == get_one(attrs, name) IN
    IF one = None THEN AttrOk(None)
    ELSE IF parse_f64(one[2]) < 0 THEN AttrErr("malformed", name)
    ELSE AttrOk(Some(parse_f64(one[2])))

\* a match that takes every unknown state for Stop
playback_state_Lenient(one) ==
    IF one = None THEN AttrErr("missing player state", ch.state)
    ELSE IF one[2] = ch.play THEN AttrOk("Play")
    ELSE IF one[2] = ch.pause THEN AttrOk("Pause")
    ELSE AttrOk("Stop")

\* the match on attrs.get_one("state")
playback_state(one) ==
    IF one = None THEN AttrErr("missing player state", ch.state)
    ELSE IF one[2] = ch.play THEN AttrOk("Play")
    ELSE IF one[2] = ch.pause THEN AttrOk("Pause")
    ELSE IF one[2] = ch.stop THEN AttrOk("Stop")
    ELSE AttrErr("unknown player state", ch.state)

\* Status::from_attributes: the state first, then the fields in the order of
\* the struct literal, each `?` returning the first error
Status_from_attributes(attrs) ==
    LET fields == << playback_state(get_one(attrs, ch.state)),
                     get_opt(attrs, ch.song),
                     get_opt_string(attrs, ch.songid),
                     get_opt_seconds(attrs, ch.elapsed),
                     get_opt_seconds(attrs, ch.duration),
                     get_opt_string(attrs, ch.audio),
                     get(attrs, ch.playlist),
                     get_bool(attrs, ch.repeat),
                     get_bool(attrs, ch.random),
                     get_bool(attrs, ch.single),
                     get_opt(attrs, ch.volume) >>
        failed == {i \in 1..Len(fields) : fields[i].tag = "Err"}
    IN IF failed # {}
       THEN fields[CHOOSE i \in failed : \A j \in failed : i <= j]
       ELSE AttrOk([state |-> fields[1].value,
                    song |-> fields[2].value,
                    song_id |-> fields[3].value,
                    elapsed |-> fields[4].value,
                    duration |-> fields[5].value,
                    audio_format |-> fields[6].value,
                    playlist_version |-> fields[7].value,
                    repeat |-> fields[8].value,
                    random |-> fields[9].value,
                    single |-> fields[10].value,
                    volume |-> fields[11].value])

\* an event parser that knows the player subsystem only
MpdEvent_from_str_PlayerOnly(s) ==
    IF s = SUBSYSTEMS[1] THEN Some(s) ELSE None

\* impl FromStr for MpdEvent: Ok(event) for the four names, Err(()) otherwise
MpdEvent_from_str(s) ==
    IF \E i \in 1..Len(SUBSYSTEMS) : s = SUBSYSTEMS[i] THEN Some(s) ELSE None

\* Changed::events: filter_map over the subsystems, unknown names logged
\* and left out
RECURSIVE events(_)
events(subsystems) ==
    IF subsystems = <<>> THEN <<>>
    ELSE LET parsed == MpdEvent_from_str(Head(subsystems)) IN
         (IF parsed = None THEN <<>> ELSE <<parsed[2]>>) \o events(Tail(subsystems))

\* Changed::from_attributes: Ok(Changed { subsystems }), never an error
Changed_from_attributes(attrs) == AttrOk(get_all(attrs, ch.changed))

\* the pairs of one key of a status response: none, or one with a value of vals
OptPair(key, vals) == { <<>> } \cup { << <<key, v>> >> : v \in vals }

\* status responses: every field absent or present, well-formed or not
StatusStores ==
    { st \o id \o el \o du \o pl \o re \o ra \o si \o vo :
        st \in OptPair(ch.state, {ch.play, ch.pause, ch.stop, <<"x">>}),
        id \in OptPair(ch.songid, { <<"5">> }),
        el \in OptPair(ch.elapsed, { <<"1", "2", ".", "3">>, <<"x">> }),
        du \in OptPair(ch.duration, { <<"2", "0", "0">> }),
        pl \in OptPair(ch.playlist, { <<"7">>, <<"x">> }),
        re \in OptPair(ch.repeat, { <<"0">>, <<"1">> }),
        ra \in OptPair(ch.random, { <<"0">>, <<"1">> }),
        si \in OptPair(ch.single, { <<"0">>, <<"1">> }),
        vo \in OptPair(ch.volume, { <<"5", "0">> }) }

\* the subsystem names a daemon may report: the four known ones and one more
ChangedNames == { SUBSYSTEMS[i] : i \in 1..Len(SUBSYSTEMS) } \cup { ch.database }

\* idle responses: up to n 'changed' pairs
ChangedStores(n) ==
    UNION { [1..k -> { <<ch.changed, v>> : v \in ChangedNames }] : k \in 0..n }

\* Mpd::status on a response with these attributes
DecodeStatus ==
    /\ asked = NotAsked
    /\ asked' = [method |-> "status", key |-> <<>>]
    /\ answer' = Status_from_attributes(store)
    /\ UNCHANGED store
    /\ UNCHANGED <<muxvars, rdvars, connvars, wrvars, appvars>>

\* Mpd::idle on a response with these attributes, and the events() of the
\* Changed it returns
DecodeIdle ==
    /\ asked = NotAsked
    /\ asked' = [method |-> "idle", key |-> <<>>]
    /\ answer' = LET changed == Changed_from_attributes(store) IN
                 IF changed.tag = "Err" THEN changed
                 ELSE AttrOk(events(changed.value))
    /\ UNCHANGED store
    /\ UNCHANGED <<muxvars, rdvars, connvars, wrvars, appvars>>

InitDecode ==
    /\ MuxInit /\ ReaderOff /\ ConnUp /\ WriterOff /\ AppOff
    /\ store \in StatusStores \cup ChangedStores(MaxChanged)
    /\ asked = NotAsked
    /\ answer = None

NextDecode == DecodeStatus \/ DecodeIdle

SpecDecode == InitDecode /\ [][NextDecode]_vars

\* the store holds a pair with this key
Has(key) == \E i \in 1..Len(store) : store[i][1] = key

\* the value of the first pair with this key
ValueOf(key) == store[CHOOSE i \in 1..Len(store) :
                    /\ store[i][1] = key
                    /\ \A j \in 1..(i - 1) : store[j][1] # key][2]

StateNames == {ch.play, ch.pause, ch.stop}

\* C21: a status decode succeeds only on a state of play, pause or stop, which
\* it maps to Play, Pause, Stop, and only with the playlist version and the
\* repeat, random and single flags present, "0" decoding to false and "1" to
\* true; a missing or other state, or a missing required field, fails it; an
\* absent song id, elapsed, duration or volume decodes to none
C21_StatusDecode ==
    asked.method = "status" =>
        /\ (~Has(ch.state) \/ ~Has(ch.playlist) \/ ~Has(ch.repeat)
              \/ ~Has(ch.random) \/ ~Has(ch.single)) => answer.tag = "Err"
        /\ (Has(ch.state) /\ ValueOf(ch.state) \notin StateNames) => answer.tag = "Err"
        /\ answer.tag = "Ok" =>
            /\ answer.value.state =
                   (CASE ValueOf(ch.state) = ch.play -> "Play"
                      [] ValueOf(ch.state) = ch.pause -> "Pause"
                      [] ValueOf(ch.state) = ch.stop -> "Stop")
            /\ answer.value.playlist_version = 7
            /\ answer.value.repeat = (ValueOf(ch.repeat) = <<"1">>)
            /\ answer.value.random = (ValueOf(ch.random) = <<"1">>)
            /\ answer.value.single = (ValueOf(ch.single) = <<"1">>)
            /\ answer.value.song_id = (IF Has(ch.songid) THEN Some(<<"5">>) ELSE None)
            /\ answer.value.elapsed = (IF Has(ch.elapsed) THEN Some(123) ELSE None)
            /\ answer.value.duration = (IF Has(ch.duration) THEN Some(2000) ELSE None)
            /\ answer.value.volume = (IF Has(ch.volume) THEN Some(50) ELSE None)
        /\ ( /\ Has(ch.state) /\ ValueOf(ch.state) \in StateNames
             /\ Has(ch.playlist) /\ ValueOf(ch.playlist) = <<"7">>
             /\ Has(ch.repeat) /\ Has(ch.random) /\ Has(ch.single)
             /\ (Has(ch.elapsed) => ValueOf(ch.elapsed) # <<"x">>) ) => answer.tag = "Ok"

\* the status response {state: play, songid: 5, elapsed: 12.3, duration: 200,
\* playlist: 7, repeat: 0, random: 1, single: 0} has been decoded
C21_Witness ==
    /\ asked.method = "status"
    /\ store = << <<ch.state, ch.play>>, <<ch.songid, <<"5">> >>,
                  <<ch.elapsed, <<"1", "2", ".", "3">> >>,
                  <<ch.duration, <<"2", "0", "0">> >>,
                  <<ch.playlist, <<"7">> >>, <<ch.repeat, <<"0">> >>,
                  <<ch.random, <<"1">> >>, <<ch.single, <<"0">> >> >>
    /\ answer.tag = "Ok"
    /\ answer.value.state = "Play"
    /\ answer.value.random /\ ~answer.value.repeat /\ ~answer.value.single
    /\ answer.value.volume = None

\* the recognised names among the 'changed' values of the store, in order
RECURSIVE Recognised(_)
Recognised(attrs) ==
    IF attrs = <<>> THEN <<>>
    ELSE (IF attrs[1][1] = ch.changed /\ attrs[1][2] \in (ChangedNames \ {ch.database})
          THEN <<attrs[1][2]>> ELSE <<>>) \o Recognised(Tail(attrs))

\* C22: decoding an idle response never fails, and its events are the
\* recognised names among the 'changed' values, in their order and
\* multiplicity, the unrecognised ones left out
C22_IdleDecode ==
    asked.method = "idle" =>
        /\ answer.tag = "Ok"
        /\ answer.value = Recognised(store)

\* an idle response naming an unknown subsystem between two known ones, one of
\* them twice, has been decoded
C22_Witness ==
    /\ asked.method = "idle"
    /\ Len(store) = 3
    /\ store[1] = store[3] /\ store[1][2] = SUBSYSTEMS[1]
    /\ store[2][2] = ch.database
    /\ answer.tag = "Ok"
    /\ Len(answer.value) = 2

----------------------------------------------------------------------------
(* Domain client: one Mpd method through Conn::command (mod.rs) *)

\* helper.rs: const PLAYLIST_NAME
PLAYLIST_NAME == <<"_", "s", "o", "n", "i", "c", "a", "s", "t", "_", "a", "t", "o", "m", "i", "c", "_", "q", "u", "e", "u", "e">>

\* largest |pos| given to delete and load
MaxPos == 11
\* largest volume given to setvol
MaxVolume == 101

\* usize::to_string
RECURSIVE to_string(_)
to_string(n) ==
    LET digit(d) == <<"0", "1", "2", "3", "4", "5", "6", "7", "8", "9">>[d + 1] IN
    IF n < 10 THEN <<digit(n)>>
    ELSE Append(to_string(n \div 10), digit(n % 10))

\* position: format!("{pos:+}"), the sign always written
position(pos) ==
    IF pos >= 0 THEN <<"+">> \o to_string(pos) ELSE <<"-">> \o to_string(0 - pos)

\* a clamp that lets the volume through
cmp_min_Second(a, b) == b

\* cmp::min
cmp_min(a, b) == IF a <= b THEN a ELSE b

\* <str as Debug>::fmt on the characters that occur: quotes around, '"' and
\* '\' behind a backslash, a newline as backslash-n
DebugStr(str) ==
    <<QUOTE>>
    \o Flatten([i \in 1..Len(str) |->
                   IF str[i] \in {QUOTE, BACKSLASH} THEN <<BACKSLASH, str[i]>>
                   ELSE IF str[i] = NL THEN <<BACKSLASH, "n">>
                   ELSE <<str[i]>>])
    \o <<QUOTE>>

\* <Vec<String> as Debug>::fmt: [a, b, c]
DebugVec(args) ==
    <<"[">>
    \o Flatten([i \in 1..Len(args) |->
                   (IF i > 1 THEN <<",", SP>> ELSE <<>>) \o DebugStr(args[i])])
    \o <<"]">>

\* Display for Command: #[display("args: {args:?}")]
Command_Display(c) == ch.args \o DebugVec(c.args)

\* result.with_context(|| context): an error gains the context's Display as
\* its outermost message, an Ok passes through
with_context(result, context) ==
    [tag |-> result.tag, why |-> result.why, frame |-> result.frame,
     context |-> IF result.tag = "Err" THEN Command_Display(context) ELSE <<>>]

\* command() has not returned
NoAnswer == [tag |-> "none", why |-> "", frame |-> Empty, context |-> <<>>]

InitMpd ==
    /\ MuxInit /\ ReaderOff /\ ConnUp /\ AppOff
    /\ call = [cmd |-> <<>>, args |-> <<>>]
    /\ sock = <<>>
    /\ sent = "none"
    /\ store = <<>>
    /\ asked = NotAsked
    /\ answer = NoAnswer

\* a method of Mpd builds its command and calls Conn::command
MpdCall(method, given, name, args) ==
    /\ asked.method = "none"
    /\ asked' = [method |-> method, key |-> given]
    /\ call' = [cmd |-> name, args |-> args]
    /\ UNCHANGED <<sock, sent, store, answer>>
    /\ UNCHANGED <<muxvars, rdvars, connvars, appvars>>

\* Mpd::delete(pos)
MpdDelete(pos) == MpdCall("delete", pos, ch.deleteid, <<position(pos)>>)

\* Mpd::load(name, None, pos)
MpdLoad(name, pos) ==
    MpdCall("load", pos, ch.load,
            <<name, <<"0", ":">>, IF pos = None THEN <<>> ELSE position(pos[2])>>)

\* Mpd::setvol(volume)
MpdSetvol(volume) ==
    MpdCall("setvol", volume, ch.setvol, <<to_string(cmp_min(100, volume))>>)

\* Mpd::addid(location)
MpdAddid(location) == MpdCall("addid", location, ch_addid, <<location>>)

\* try_command: writer.send_command(cmd, args).await
CommandSend(sock_ok) ==
    /\ asked.method # "none"
    /\ WriterSend(sock_ok)

\* Conn::command returns: try_command's result through ok_response and
\* with_context.  Once the line is written try_command gives back the daemon's
\* OK frame, its ACK frame, or RecvError when the waiter's sender is dropped;
\* a failed send_command gives back its error
CommandReturn(reply) ==
    /\ sent # "none"
    /\ answer = NoAnswer
    /\ sent # "Ok" => reply = TryErr(sent)
    /\ answer' = with_context(ok_response(reply), Command(call.cmd, call.args))
    /\ UNCHANGED <<call, sock, sent, store, asked>>
    /\ UNCHANGED <<muxvars, rdvars, connvars, appvars>>

NextMpd ==
    \/ \E pos \in (0 - MaxPos)..MaxPos : MpdDelete(pos)
    \/ \E pos \in {None} \cup {Some(p) : p \in (0 - MaxPos)..MaxPos} :
          MpdLoad(PLAYLIST_NAME, pos)
    \/ \E volume \in 0..MaxVolume : MpdSetvol(volume)
    \/ \E location \in Locations : MpdAddid(location)
    \/ \E sock_ok \in BOOLEAN : CommandSend(sock_ok)
    \/ \E reply \in {TryOk(Frame("Ok", 1)), TryOk(Frame("Err", 1)),
                       TryErr("RecvError"), TryErr("IoError"), TryErr("EncodingError")} :
          CommandReturn(reply)

SpecMpd == InitMpd /\ [][NextMpd]_vars

\* sub occurs in s as a run of consecutive characters
Contains(s, sub) ==
    \E i \in 0..(Len(s) - Len(sub)) : SubSeq(s, i + 1, i + Len(sub)) = sub

\* C24: every error command() returns, whether the write failed, the encoding
\* failed or the daemon answered with an error response, has an annotation
\* that holds the command name and each of its arguments
C24_ErrorAnnotated ==
    answer.tag = "Err" =>
        /\ Contains(answer.context, call.cmd)
        /\ \A i \in 1..Len(call.args) : Contains(answer.context, DebugStr(call.args[i]))

\* |n| as decimal digits behind a sign that is always there
IsSigned(arg, n) ==
    /\ Len(arg) >= 2
    /\ arg[1] = (IF n >= 0 THEN "+" ELSE "-")
    /\ ParseDigits(Tail(arg), 0) = (IF n >= 0 THEN n ELSE 0 - n)

\* delete and load write every offset with its sign, zero as +0, which the
\* empty 'no position' argument of load never equals
SignedOffsets ==
    sent = "Ok" =>
        /\ asked.method = "delete" =>
             (Len(call.args) = 1 /\ IsSigned(call.args[1], asked.key))
        /\ asked.method = "load" =>
             (call.args[3] = <<>>) = (asked.key = None)
        /\ (asked.method = "load" /\ asked.key # None) =>
             IsSigned(call.args[3], asked.key[2])

\* C27: delete and load send the offset with an explicit sign (+n, +0, -n),
\* so zero differs from the empty 'no position' argument, and delete(pos)
\* sends the delete-by-position command with the encoded offset as its one
\* argument
C27_SignedPosition ==
    /\ SignedOffsets
    /\ (asked.method = "delete" /\ sent = "Ok") =>
          sock = ch.delete \o <<SP>> \o Quoted(call.args[1]) \o <<NL>>

\* C29: setvol(v) writes min(v, 100) as its one argument, a value in 0..100
C29_VolumeClamped ==
    (asked.method = "setvol" /\ sent = "Ok") =>
        /\ Len(call.args) = 1
        /\ ParseDigits(call.args[1], 0) = (IF asked.key < 100 THEN asked.key ELSE 100)
        /\ ParseDigits(call.args[1], 0) \in 0..100
        /\ sock = ch.setvol \o <<SP>> \o Quoted(call.args[1]) \o <<NL>>

\* setvol of a volume above 100 has been written as 100
C29_Witness ==
    /\ asked.method = "setvol"
    /\ asked.key > 100
    /\ sent = "Ok"
    /\ sock = ch.setvol \o <<SP, QUOTE, "1", "0", "0", QUOTE, NL>>

----------------------------------------------------------------------------
(* Command handlers that issue a sequence of commands: player_op
   (player/commands.rs) and atomic_enqueue_tracks (app/helper.rs) *)


\* most locators given to atomic_enqueue_tracks
MaxUrls == 2
\* the position a seek asks for, in seconds
SeekPos == 30

\* Url::as_str of the i-th locator: no newline in any of them
Url(i) == <<"u">> \o to_string(i)

\* the match on op in player_op
op_command(op) ==
    CASE op = "Next" -> Command(ch.next, <<>>)
      [] op = "Previous" -> Command(ch.previous, <<>>)
      [] op = "Seek" -> Command(ch.seekcur, <<to_string(SeekPos)>>)

\* a player_op that pauses after the operation
player_op_PauseAfter(op, state) ==
    <<Command(ch.status, <<>>), op_command(op), Command(ch.pause, <<>>)>>
    \o (IF state = "Play" THEN <<Command(ch.play, <<>>)>> ELSE <<>>)

\* player_op: the commands it issues one after the other when each succeeds,
\* for the state the daemon's status response holds ("Unknown": a response
\* Status::from_attributes fails on, which ends player_op at once)
player_op(op, state) ==
    IF state = "Unknown" THEN <<Command(ch.status, <<>>)>>
    ELSE <<Command(ch.status, <<>>), Command(ch.pause, <<>>), op_command(op)>>
         \o (IF state = "Play" THEN <<Command(ch.play, <<>>)>> ELSE <<>>)

\* a staging that loads before it appends
atomic_enqueue_tracks_LoadFirst(urls, pos) ==
    <<Command(ch.playlistclear, <<PLAYLIST_NAME>>),
      Command(ch.load, <<PLAYLIST_NAME, <<"0", ":">>,
                         IF pos = None THEN <<>> ELSE position(pos[2])>>)>>
    \o [i \in 1..Len(urls) |-> Command(ch.playlistadd, <<PLAYLIST_NAME, urls[i]>>)]

\* atomic_enqueue_tracks: the commands it issues one after the other when
\* each succeeds
atomic_enqueue_tracks(urls, pos) ==
    <<Command(ch.playlistclear, <<PLAYLIST_NAME>>)>>
    \o [i \in 1..Len(urls) |-> Command(ch.playlistadd, <<PLAYLIST_NAME, urls[i]>>)]
    \o <<Command(ch.load, <<PLAYLIST_NAME, <<"0", ":">>,
                            IF pos = None THEN <<>> ELSE position(pos[2])>>)>>

\* the handler that runs; it holds the write guard of session.mpd() from its
\* first command to its return, so it is the only domain caller
Handler == "c1"

\* up to n locators, each different from the others
UrlLists(n) == { [i \in 1..k |-> Url(i)] : k \in 0..n }

\* skip_next / skip_previous / seek, with the state the daemon will report
InitPlayerOp ==
    /\ MuxInit /\ ReaderOff /\ ConnUp /\ WriterOff /\ AppOff
    /\ store = <<>>
    /\ asked \in { [method |-> "player_op", key |-> [op |-> op, state |-> st]] :
                      op \in {"Next", "Previous", "Seek"}, st \in {"Play", "Pause", "Stop", "Unknown"} }
    /\ answer = None

\* set_next_in_queue, with the locators resolved and the position given
InitEnqueue ==
    /\ MuxInit /\ ReaderOff /\ ConnUp /\ WriterOff /\ AppOff
    /\ store = <<>>
    /\ asked \in { [method |-> "atomic_enqueue_tracks", key |-> [urls |-> u, pos |-> p]] :
                      u \in UrlLists(MaxUrls), p \in {None, Some(0)} }
    /\ answer = None

\* the commands of the handler that runs
HandlerCommands ==
    IF asked.method = "player_op"
    THEN player_op(asked.key.op, asked.key.state)
    ELSE atomic_enqueue_tracks(asked.key.urls, asked.key.pos)

\* a handler that goes on after an error
Failed_Ignored == FALSE

Failed == \E r \in returned : r.res.tag = "Err"

\* the handler calls its next Mpd method: the previous one has returned Ok
\* (`?` returns from the handler on the first error)
HandlerCall ==
    /\ ~Failed
    /\ Cardinality(returned) < Len(HandlerCommands)
    /\ InvokeCommand(Handler, HandlerCommands[Cardinality(returned) + 1])

\* the handler's future is dropped while a command waits for its response
\* (run_websocket's select): nothing of it runs again
HandlerDropped ==
    /\ pc[Handler] = "await"
    /\ pc' = [pc EXCEPT ![Handler] = "dropped"]
    /\ slot' = [slot EXCEPT ![Handler] = Empty]
    /\ cmd' = [cmd EXCEPT ![Handler] = NoCmd]
    /\ inv' = [inv EXCEPT ![Handler] = 0]
    /\ UNCHANGED <<npush, writer, qlock, queue, wire, peer, stream,
                   rd, nread, delivered, returned, kalog, torn>>
    /\ UNCHANGED <<rdvars, connvars, wrvars, atvars, appvars>>

NextHandler ==
    \/ HandlerCall
    \/ HandlerDropped
    \/ KeepaliveWake
    \/ \E t \in Tasks : PushWaiter(t)
    \/ \E t \in Tasks : SendCommand(t)
    \/ \E t \in Tasks : Receive(t)
    \/ \E kind \in {"Ok", "Err"} : PeerAnswer(kind)
    \/ \E how \in {"Eof", "Garbage"} : PeerFail(how)
    \/ ReaderRead
    \/ ReaderDeliver

SpecPlayerOp == InitPlayerOp /\ [][NextHandler]_vars

SpecEnqueue == InitEnqueue /\ [][NextHandler]_vars

\* the lines on the wire that the handler's commands wrote: all but the
\* keepalive task's pings
NotPing(l) == l.name # ch_ping
HandlerLines == SelectSeq(wire, NotPing)

\* the wire form of a command name and its arguments
WireLine(name, args) ==
    name \o Flatten([i \in 1..Len(args) |-> <<SP>> \o Quoted(args[i])]) \o <<NL>>

\* the command that wrote this line got the daemon's frame for this very
\* line, an OK one, and command() has returned it
Succeeded(l) ==
    /\ \E r \in returned : r.inv = l.inv /\ r.res.tag = "Ok"
    /\ \E k \in 1..Len(delivered) :
          /\ delivered[k].waiter = l.inv
          /\ delivered[k].frame.kind = "Ok"
          /\ wire[delivered[k].frame.for] = l

\* the handler has returned: no command of it is under way and it calls no
\* further one
HandlerReturned == pc[Handler] = "ready" /\ ~ENABLED HandlerCall

\* C23: skip-next, skip-previous and seek write status, then pause, then the
\* operation (next, previous, seekcur), then play, in this order and nothing
\* else; play is written only if the state status reported was playing, and
\* is written whenever it was and the handler returns without error; each
\* line but the first is written only once the response to the line before
\* it has come back, however the daemon, the reader and the keepalive task
\* are scheduled
C23_PlayerOpOrder ==
    LET L == HandlerLines
        st == asked.key.state
    IN /\ Len(L) <= 4
       /\ Len(L) >= 1 => L[1].line = WireLine(ch.status, <<>>)
       /\ Len(L) >= 2 => L[2].line = WireLine(ch.pause, <<>>)
       /\ Len(L) >= 3 =>
            L[3].line = (CASE asked.key.op = "Next" -> WireLine(ch.next, <<>>)
                           [] asked.key.op = "Previous" -> WireLine(ch.previous, <<>>)
                           [] asked.key.op = "Seek" ->
                                WireLine(ch.seekcur, << <<"3", "0">> >>))
       /\ Len(L) >= 4 => (L[4].line = WireLine(ch.play, <<>>) /\ st = "Play")
       /\ Len(L) >= 2 => st \in {"Play", "Pause", "Stop"}
       /\ \A k \in 2..Len(L) : Succeeded(L[k - 1])
       /\ (HandlerReturned /\ ~Failed /\ st # "Unknown") =>
            Len(L) = (IF st = "Play" THEN 4 ELSE 3)

\* a skip-next on a playing daemon has returned without error with a
\* keepalive ping written between its pause and its next
C23_Witness ==
    /\ asked.key.op = "Next"
    /\ asked.key.state = "Play"
    /\ HandlerReturned /\ ~Failed
    /\ Len(wire) = 5
    /\ wire[3].name = ch_ping
    /\ wire[5].name = ch.play

\* C28: the staging primitive writes one playlistclear of the scratch
\* playlist, then one playlistadd per locator in the order given, then one
\* load of the scratch playlist at the position given, in this order and
\* nothing else; each line but the first is written only once the command
\* before it has succeeded, so no load is written when a clear or an append
\* fails, and load is the only line that touches the live queue
C28_StagingOrder ==
    LET L == HandlerLines
        urls == asked.key.urls
        pos == IF asked.key.pos = None THEN <<>> ELSE <<"+", "0">>
    IN /\ Len(L) <= Len(urls) + 2
       /\ Len(L) >= 1 => L[1].line = WireLine(ch.playlistclear, <<PLAYLIST_NAME>>)
       /\ \A k \in 2..Len(L) :
            /\ k <= Len(urls) + 1 =>
                 L[k].line = WireLine(ch.playlistadd, <<PLAYLIST_NAME, urls[k - 1]>>)
            /\ k = Len(urls) + 2 =>
                 L[k].line = WireLine(ch.load, <<PLAYLIST_NAME, <<"0", ":">>, pos>>)
            /\ Succeeded(L[k - 1])
       /\ \A k \in 1..Len(L) : L[k].name = ch.load => k = Len(urls) + 2
       /\ (\E r \in returned : r.res.tag = "Err"
               /\ \A k \in 1..Len(L) : L[k].inv = r.inv => L[k].name # ch.load)
            => \A k \in 1..Len(L) : L[k].name # ch.load
       /\ (HandlerReturned /\ ~Failed) => Len(L) = Len(urls) + 2

\* two locators have been staged and loaded at position 0 without error,
\* with a keepalive ping written between the two appends
C28_Witness ==
    /\ Len(asked.key.urls) = 2
    /\ asked.key.pos = Some(0)
    /\ HandlerReturned /\ ~Failed
    /\ Len(wire) = 5
    /\ wire[3].name = ch_ping
    /\ wire[5].line = WireLine(ch.load, <<PLAYLIST_NAME, <<"0", ":">>, <<"+", "0">> >>)

\* C39: in the play/pause workaround a failed status query, pause or
\* operation is the last thing the handler does: no further line of it is
\* written, no play even when the state captured was playing, and the
\* handler has returned with the error
C39_FailureEndsWorkaround ==
    \A r \in returned :
        r.res.tag = "Err" =>
            /\ \A k \in 1..Len(HandlerLines) : HandlerLines[k].inv <= r.inv
            /\ \A k \in 1..Len(HandlerLines) :
                 HandlerLines[k].line = WireLine(ch.play, <<>>) =>
                     HandlerLines[k].inv = r.inv
            /\ HandlerReturned
            /\ cmd[Handler] = NoCmd

\* on a playing daemon the pause of a skip-next was answered with an error
\* response: the handler has returned after two lines
C39_Witness ==
    /\ asked.key.op = "Next"
    /\ asked.key.state = "Play"
    /\ Len(HandlerLines) = 2
    /\ \E r \in returned :
          /\ r.inv = HandlerLines[2].inv
          /\ r.res.tag = "Err"
          /\ r.res.why = "ErrorResponse"
    /\ HandlerReturned

----------------------------------------------------------------------------
(* WebSocket sessions on the command connection: receive_task and dispatch
   (player.rs, player/commands.rs), and the write guard of Session::mpd
   that every handler takes *)

\* most messages a client sends on one session
MaxMsgs == 2
\* the sequence numbers a client uses: it may use one twice
MaxSeq == 2

\* a ClientMsg::Command as message_stream decodes it, a text message
\* serde_json does not decode, and a message that is not text
ClientCommand(seq, kind) == [msg |-> "command", seq |-> seq, kind |-> kind]
BadJson == [msg |-> "badjson", seq |-> 0, kind |-> ""]
NotText == [msg |-> "nottext", seq |-> 0, kind |-> ""]

\* Response { seq, kind }
Response(seq, kind) == [seq |-> seq, kind |-> kind]

\* a session whose receive_task waits for its first message
Session(rx) == [pc |-> "recv", rx |-> rx, got |-> <<>>, cur |-> <<>>, base |-> {},
                tx |-> <<>>]

\* the commands a handler issues one after the other when each succeeds:
\* pause, stop, skip_next / skip_previous / seek (player_op, on the state
\* the daemon reports)
handler_commands(kind) ==
    CASE kind = "pause" -> <<Command(ch.pause, <<>>)>>
      [] kind = "stop" -> <<Command(ch.stop, <<>>)>>
      [] kind = "player-op" -> player_op(asked.key.op, asked.key.state)

\* a lock that any number of handlers get at once
write_available_Always(g) == TRUE

\* RwLock::write().await completes once no guard is held
write_available(g) == g = Free

\* what command() has returned to the handler of session s since it got the
\* guard: while it holds the guard no other handler calls command()
Own(s) == returned \ ws[s].base
HandlerFailed(s) == \E r \in Own(s) : r.res.tag = "Err"

\* receive_task: messages.next().await.  message_stream skips what is not
\* text and what does not decode, yields a command, and ends when the
\* socket closes or fails
NextMessage(s) ==
    /\ ws[s].pc = "recv"
    /\ IF ws[s].rx = <<>>
       THEN ws' = [ws EXCEPT ![s].pc = "closed"]
       ELSE LET m == Head(ws[s].rx) IN
            IF m.msg = "command"
            THEN ws' = [ws EXCEPT ![s].rx = Tail(@), ![s].pc = "guard",
                                  ![s].cur = m, ![s].got = Append(@, m)]
            ELSE ws' = [ws EXCEPT ![s].rx = Tail(@)]
    /\ UNCHANGED <<guard, evloop>>
    /\ UNCHANGED <<muxvars, rdvars, connvars, wrvars, atvars>>

\* the handler's session.mpd().await: self.ctx.mpd.write().await
SessionMpd(s) ==
    /\ ws[s].pc = "guard"
    /\ write_available(guard)
    /\ guard' = s
    /\ ws' = [ws EXCEPT ![s].pc = "run", ![s].base = returned]
    /\ UNCHANGED evloop
    /\ UNCHANGED <<muxvars, rdvars, connvars, wrvars, atvars>>

\* the handler calls its next Mpd method: the previous one has returned Ok
HandlerInvoke(s) ==
    /\ ws[s].pc = "run"
    /\ ~HandlerFailed(s)
    /\ Cardinality(Own(s)) < Len(handler_commands(ws[s].cur.kind))
    /\ InvokeCommand(s, handler_commands(ws[s].cur.kind)[Cardinality(Own(s)) + 1])

\* the handler returns, dropping the guard, and dispatch sends the Response:
\* ResponseKind::Error for Err, the command's own kind for Ok.  tx holds what
\* was passed to Sender::send, which logs a failed write and returns.
Respond(s) ==
    /\ ws[s].pc = "run"
    /\ pc[s] = "ready"
    /\ HandlerFailed(s) \/ Cardinality(Own(s)) = Len(handler_commands(ws[s].cur.kind))
    /\ guard' = IF guard = s THEN Free ELSE guard
    /\ ws' = [ws EXCEPT ![s].pc = "recv", ![s].cur = <<>>, ![s].base = {},
                        ![s].tx = Append(@, Response(ws[s].cur.seq,
                                      IF HandlerFailed(s) THEN "Error" ELSE ws[s].cur.kind))]
    /\ UNCHANGED evloop
    /\ UNCHANGED <<muxvars, rdvars, connvars, wrvars, atvars>>

\* run_websocket's select completes with the events task: receive_task is
\* dropped where it waits, with the guard and the command() it may be in
SessionDropped(s) ==
    /\ ws[s].pc \in {"recv", "guard", "run"}
    /\ pc[s] \in {"ready", "lock", "await"}
    /\ ws' = [ws EXCEPT ![s].pc = "dropped", ![s].cur = <<>>, ![s].base = {}]
    /\ guard' = IF guard = s THEN Free ELSE guard
    /\ pc' = [pc EXCEPT ![s] = "dropped"]
    /\ slot' = [slot EXCEPT ![s] = Empty]
    /\ cmd' = [cmd EXCEPT ![s] = NoCmd]
    /\ inv' = [inv EXCEPT ![s] = 0]
    /\ UNCHANGED <<npush, writer, qlock, queue, wire, peer, stream,
                   rd, nread, delivered, returned, kalog, torn>>
    /\ UNCHANGED evloop
    /\ UNCHANGED <<rdvars, connvars, wrvars, atvars>>

\* what a client may send on one session
Inbox(n) ==
    LET Msgs == { ClientCommand(q, k) : q \in 1..MaxSeq, k \in {"pause", "stop"} }
                \cup {BadJson, NotText}
    IN UNION { [1..k -> Msgs] : k \in 0..n }

\* one session, with the messages its client will send
InitSession ==
    /\ MuxInit /\ ReaderOff /\ ConnUp /\ WriterOff /\ AttrsOff
    /\ guard = Free
    /\ \E rx \in Inbox(MaxMsgs) :
          ws = [c \in Callers |-> IF c = Handler THEN Session(rx) ELSE SessionOff]
    /\ evloop = LoopOff

\* two sessions: one client asks for a skip on a stopped daemon, or on one
\* whose status does not decode, the other for a stop
InitGuard ==
    /\ MuxInit /\ ReaderOff /\ ConnUp /\ WriterOff
    /\ store = <<>>
    /\ asked \in { [method |-> "player_op", key |-> [op |-> op, state |-> st]] :
                      op \in {"Next"}, st \in {"Stop", "Unknown"} }
    /\ answer = None
    /\ guard = Free
    /\ ws = [c \in Callers |->
                Session(<<ClientCommand(1, IF c = Handler THEN "player-op"
                                           ELSE "stop")>>)]
    /\ evloop = LoopOff

NextSession ==
    \/ \E s \in Callers : NextMessage(s)
    \/ \E s \in Callers : SessionMpd(s)
    \/ \E s \in Callers : HandlerInvoke(s)
    \/ \E s \in Callers : Respond(s)
    \/ \E s \in Callers : SessionDropped(s)
    \/ KeepaliveWake
    \/ \E t \in Tasks : PushWaiter(t)
    \/ \E t \in Tasks : SendCommand(t)
    \/ \E t \in Tasks : Receive(t)
    \/ \E kind \in {"Ok", "Err"} : PeerAnswer(kind)
    \/ \E how \in {"Eof", "Garbage"} : PeerFail(how)
    \/ ReaderRead
    \/ ReaderDeliver

SpecSession == InitSession /\ [][NextSession]_vars

\* two sessions on a command connection whose stream stays intact (what a
\* broken stream does to the callers is explored with one session and in
\* the multiplexer's specification)
NextGuard ==
    \/ \E s \in Callers : NextMessage(s)
    \/ \E s \in Callers : SessionMpd(s)
    \/ \E s \in Callers : HandlerInvoke(s)
    \/ \E s \in Callers : Respond(s)
    \/ \E s \in Callers : SessionDropped(s)
    \/ KeepaliveWake
    \/ \E t \in Tasks : PushWaiter(t)
    \/ \E t \in Tasks : SendCommand(t)
    \/ \E t \in Tasks : Receive(t)
    \/ \E kind \in {"Ok", "Err"} : PeerAnswer(kind)
    \/ ReaderRead
    \/ ReaderDeliver

SpecGuard == InitGuard /\ [][NextGuard]_vars

\* the scheduling the runtime and the daemon guarantee to a session: a task
\* that can run does run, and the daemon answers.  The session being
\* dropped, the stream breaking and the keepalive waking are not promised.
FairSession ==
    /\ SpecSession
    /\ \A s \in Callers : WF_vars(NextMessage(s))
    /\ \A s \in Callers : WF_vars(SessionMpd(s))
    /\ \A s \in Callers : WF_vars(HandlerInvoke(s))
    /\ \A s \in Callers : WF_vars(Respond(s))
    /\ \A t \in Tasks : WF_vars(PushWaiter(t))
    /\ \A t \in Tasks : WF_vars(SendCommand(t))
    /\ \A t \in Tasks : WF_vars(Receive(t))
    /\ WF_vars(ReaderRead)
    /\ WF_vars(ReaderDeliver)
    /\ WF_vars(\E kind \in {"Ok", "Err"} : PeerAnswer(kind))

\* what the k-th command() of the connection's domain callers returned
KthResult(k) ==
    (CHOOSE r \in returned : Cardinality({q \in returned : q.inv < r.inv}) = k - 1).res

\* the Responses sent so far answer the commands decoded so far, one each and
\* in their order, with Error exactly for the handlers that failed; a
\* command is decoded only once the one before it is answered
ResponsesFollowCommands ==
    LET tx == ws[Handler].tx
        got == ws[Handler].got
    IN /\ Len(tx) <= Len(got)
       /\ Len(got) <= Len(tx) + 1
       /\ \A k \in 1..Len(tx) :
            /\ tx[k].seq = got[k].seq
            /\ tx[k].kind = "Error" <=> KthResult(k).tag = "Err"
            /\ tx[k].kind # "Error" => tx[k].kind = got[k].kind

\* C36: every command decoded on a session gets exactly one Response with
\* its sequence number, of kind Error when its handler failed, and the
\* Responses are sent in the order the commands arrived, one command being
\* handled at a time; as long as the session runs no command stays without
\* its Response
C36_OneResponsePerCommand ==
    /\ []ResponsesFollowCommands
    /\ [](ws[Handler].pc # "dropped") =>
          \A k \in 1..MaxMsgs :
              (Len(ws[Handler].got) >= k) ~> (Len(ws[Handler].tx) >= k)

\* who wrote a line of the command connection: the keepalive task its pings,
\* the stop handler the stop line, the player_op handler the rest
WriterOfLine(l) ==
    IF l.name = ch_ping THEN KA
    ELSE IF l.name = ch.stop THEN "c2" ELSE Handler

\* C37: a handler holds the write guard from its first command to its
\* return, so between two lines of one handler the wire holds only lines of
\* that handler and keepalive pings, never a line of the other session's
\* handler
C37_HandlersDoNotInterleave ==
    /\ \A s \in Callers : (ws[s].pc = "run" \/ InFlight(s)) => guard = s
    /\ \A i \in 1..Len(wire), k \in 1..Len(wire) :
          (i < k /\ WriterOfLine(wire[i]) = WriterOfLine(wire[k])
                 /\ WriterOfLine(wire[i]) # KA) =>
              \A j \in i..k : WriterOfLine(wire[j]) \in {WriterOfLine(wire[i]), KA}

\* both handlers have run to their end, the skip first with a keepalive
\* ping between its pause and its next while the other session waited for
\* the guard, and both sessions have sent their Response
C37_Witness ==
    /\ asked.key.state = "Stop"
    /\ Len(wire) = 5
    /\ wire[3].name = ch_ping
    /\ wire[4].name = ch.next
    /\ wire[5].name = ch.stop
    /\ \A s \in Callers : Len(ws[s].tx) = 1 /\ ws[s].tx[1].kind # "Error"

----------------------------------------------------------------------------
(* The event connection: events::task / mpd_loop (app/events.rs), the one
   caller of Mpd::idle, on the second connection that run() opens *)

\* most idle commands mpd_loop issues
MaxIdles == 2
\* the task that runs mpd_loop: the only domain caller of its connection
MpdLoop == "c1"

\* the idle responses the daemon may send: the player changed; the playlist
\* changed; a subsystem MpdEvent does not know and the playlist, reported
\* twice, changed
LoopChanged ==
    { << <<ch.changed, SUBSYSTEMS[1]>> >>,
      << <<ch.changed, SUBSYSTEMS[2]>> >>,
      << <<ch.changed, ch.database>>, <<ch.changed, SUBSYSTEMS[2]>>,
         <<ch.changed, SUBSYSTEMS[2]>> >> }

\* a loop that asks for no status after a playlist event
mpd_loop_for_NoFollowUp(evs) == [at |-> "idle", pending |-> <<>>]

\* the for loop over changed.events(): a Player event is a send_replace, a
\* Playlist event calls playlist_version, whose status is awaited before the
\* loop goes on; the events with no arm of their own issue nothing.  At the
\* end of the events the outer loop calls idle again.
RECURSIVE mpd_loop_for(_)
mpd_loop_for(evs) ==
    IF evs = <<>> THEN [at |-> "idle", pending |-> <<>>]
    ELSE IF Head(evs) = SUBSYSTEMS[2] THEN [at |-> "status", pending |-> Tail(evs)]
    ELSE mpd_loop_for(Tail(evs))

\* the command mpd_loop is about to call
MpdLoopCommand ==
    IF evloop.at = "idle" THEN Command(ch_idle, SUBSYSTEMS) ELSE Command(ch.status, <<>>)

\* what the last command() of mpd_loop returned
LastResult == (CHOOSE r \in returned : \A q \in returned : q.inv <= r.inv).res

\* mpd_loop calls playlist_version (mpd.status()) or mpd.idle()
MpdLoopCall ==
    /\ evloop.at \in {"ver", "idle", "status"}
    /\ Cardinality(returned) = evloop.consumed
    /\ evloop.at = "idle" => Len(evloop.seen) < MaxIdles
    /\ InvokeCommand(MpdLoop, MpdLoopCommand)

\* the call returns to mpd_loop.  An error, or a status response that
\* Status::from_attributes rejects, leaves mpd_loop through `?` and task
\* panics; the first playlist_version is followed by the first idle; an idle
\* response (`changed`, never rejected) is decoded and the for loop is
\* entered with its events; a follow-up status goes on with the for loop.
MpdLoopResume(decodes, changed) ==
    /\ evloop.at \in {"ver", "idle", "status"}
    /\ Cardinality(returned) = evloop.consumed + 1
    /\ pc[MpdLoop] = "ready"
    /\ evloop.at = "idle" => decodes
    /\ evloop' =
         IF LastResult.tag = "Err" \/ ~decodes
         THEN [evloop EXCEPT !.at = "panicked", !.pending = <<>>, !.consumed = @ + 1]
         ELSE IF evloop.at = "ver"
         THEN [evloop EXCEPT !.at = "idle", !.consumed = @ + 1]
         ELSE IF evloop.at = "idle"
         THEN LET next == mpd_loop_for(events(Changed_from_attributes(changed).value)) IN
              [at |-> next.at, pending |-> next.pending,
               seen |-> Append(evloop.seen, changed), consumed |-> evloop.consumed + 1]
         ELSE LET next == mpd_loop_for(evloop.pending) IN
              [evloop EXCEPT !.at = next.at, !.pending = next.pending, !.consumed = @ + 1]
    /\ UNCHANGED <<guard, ws>>
    /\ UNCHANGED <<muxvars, rdvars, connvars, wrvars, atvars>>

\* the event connection, mpd_loop about to ask for the playlist version
InitEventConn ==
    /\ MuxInit /\ ReaderOff /\ ConnUp /\ WriterOff /\ AttrsOff
    /\ guard = Free
    /\ ws = [c \in Callers |-> SessionOff]
    /\ evloop = [at |-> "ver", pending |-> <<>>, seen |-> <<>>, consumed |-> 0]

\* the command connection, with a session whose client asks for a skip on a
\* playing daemon
InitCommandConn ==
    /\ MuxInit /\ ReaderOff /\ ConnUp /\ WriterOff
    /\ store = <<>>
    /\ asked = [method |-> "player_op", key |-> [op |-> "Next", state |-> "Play"]]
    /\ answer = None
    /\ guard = Free
    /\ ws = [c \in Callers |->
                IF c = Handler THEN Session(<<ClientCommand(1, "player-op")>>)
                ELSE SessionOff]
    /\ evloop = LoopOff

\* run() opens two connections: Ctx.mpd, which the sessions share, and
\* mpd_event, which is moved into events::task.  They share no state, so
\* each is explored on its own.
InitRun == InitCommandConn \/ InitEventConn

\* the tasks of either connection, the daemon's stream staying intact
NextRun ==
    \/ \E s \in Callers : NextMessage(s)
    \/ \E s \in Callers : SessionMpd(s)
    \/ \E s \in Callers : HandlerInvoke(s)
    \/ \E s \in Callers : Respond(s)
    \/ \E s \in Callers : SessionDropped(s)
    \/ MpdLoopCall
    \/ \E decodes \in BOOLEAN, changed \in LoopChanged : MpdLoopResume(decodes, changed)
    \/ KeepaliveWake
    \/ \E t \in Tasks : PushWaiter(t)
    \/ \E t \in Tasks : SendCommand(t)
    \/ \E t \in Tasks : Receive(t)
    \/ \E kind \in {"Ok", "Err"} : PeerAnswer(kind)
    \/ ReaderRead
    \/ ReaderDeliver

SpecRun == InitRun /\ [][NextRun]_vars

\* the playlist events an idle response reports
PlaylistEvents(changed) ==
    Cardinality({i \in DOMAIN changed : changed[i] = <<ch.changed, SUBSYSTEMS[2]>>})

\* the command names mpd_loop has to write for the idle responses it has
\* received: per response the idle it answers, then one status per playlist
\* event
RECURSIVE LinesFor(_)
LinesFor(responses) ==
    IF responses = <<>> THEN <<>>
    ELSE <<ch_idle>> \o [i \in 1..PlaylistEvents(Head(responses)) |-> ch.status]
         \o LinesFor(Tail(responses))

\* C38: no idle is ever written on the command connection, so no handler of
\* a session waits for the writer behind an outstanding idle; on the event
\* connection mpd_loop writes the version query, then per idle response
\* received the idle it answers followed by one status per playlist event
\* reported, and only then the next idle: a follow-up status is written only
\* once the response of the idle before it has been received, and before
\* the next idle
C38_IdleOnEventConnection ==
    LET L == HandlerLines
        names == [k \in 1..Len(L) |-> L[k].name]
        due == <<ch.status>> \o LinesFor(evloop.seen) \o <<ch_idle>>
    IN /\ evloop.at = "off" =>
            /\ \A k \in 1..Len(wire) : ~is_idle(wire[k].name)
            /\ \A t \in Tasks : ~is_idle(cmd[t].name)
            /\ ~IdleOutstanding
       /\ evloop.at # "off" =>
            /\ Len(names) <= Len(due)
            /\ \A k \in 1..Len(names) : names[k] = due[k]
            /\ \A k \in 1..Len(L) : (is_idle(L[k].name) /\ k < Len(L)) => Succeeded(L[k])
            /\ evloop.at = "idle" => Len(names) >= Len(due) - 1

\* an idle response that reports the playlist has been received, its
\* follow-up status written and answered, and the next idle written
C38_Witness ==
    /\ Len(evloop.seen) = 1
    /\ evloop.seen[1] = << <<ch.changed, SUBSYSTEMS[2]>> >>
    /\ Len(HandlerLines) = 4
    /\ HandlerLines[3].name = ch.status
    /\ is_idle(HandlerLines[4].name)
    /\ Succeeded(HandlerLines[3])

====
